---- MODULE Spec2Model ----
(***************************************************************************)
(* State-machine model of the whiteboard engine of canopy (src/App.tsx):   *)
(* the pan/zoom transform, the ink canvas with its snapshot history, the   *)
(* card list of each session, lasso selection, card placement and the      *)
(* asynchronous AI / image-load callbacks.                                 *)
(*                                                                         *)
(* Numbers of the program are IEEE doubles; the model computes with exact  *)
(* rationals [n, d] (d > 0, lowest terms).                                 *)
(***************************************************************************)
EXTENDS Integers, Sequences, FiniteSets, TLC

VARIABLES
    chats,            \* useState<Chat[]>: the sessions, newest first
    activeChatId,     \* useState<string|null>: id of the active session, NoChat for null
    canvas,           \* canvasRef: the ink bitmap (one DOM canvas shared by all sessions)
    previewCanvas,    \* previewCanvasRef: the preview bitmap
    activeTool,       \* useState: the active tool
    isDrawing,        \* useState<boolean>
    drawStartCoords,  \* useRef: scene point of the last pointer-down
    lassoPath,        \* useState: scene points of the lasso gesture
    selectedCardIds,  \* useState<string[]>
    selectionBounds,  \* useState: <<>> for null, <<box>> otherwise
    aiMenuPosition,   \* useState: <<>> for null, <<pos>> otherwise
    panZoom,          \* panZoomRef: scale, panX, panY, isPanning, startPanX, startPanY
    pending,          \* callbacks in flight: AI promises and image loads
    now,              \* Date.now()
    toasts,           \* useState<Toast[]>: the messages, oldest first
    ctx,              \* 2d context of the ink canvas: stroke style and current path
    localStorage,     \* the entry 'canopy-app-state-v4': <<>> when absent
    listeners,        \* window mousemove/mouseup listeners of the cards, oldest first, with what they captured
    renderedScale,    \* panZoomRef.current.scale as read by the last render: the cards' scale prop
    lastOp,           \* the handler that ran last, with its inputs (observation only)
    script            \* strokes and undos counted since the session was new (observation only)

vars == <<chats, activeChatId, canvas, previewCanvas, activeTool, isDrawing,
          drawStartCoords, lassoPath, selectedCardIds, selectionBounds,
          aiMenuPosition, panZoom, pending, now, toasts, ctx,
          localStorage, listeners, renderedScale, lastOp, script>>

inkVars  == <<canvas, previewCanvas, ctx>>
toolVars == <<activeTool, isDrawing, drawStartCoords, lassoPath>>
selVars  == <<selectedCardIds, selectionBounds, aiMenuPosition>>

----------------------------------------------------------------------------
(* Exact rational arithmetic standing for the program's number arithmetic. *)

Abs(i) == IF i < 0 THEN -i ELSE i

RECURSIVE Gcd(_, _)
Gcd(a, b) == IF b = 0 THEN a ELSE Gcd(b, a % b)

\* a rational in lowest terms with a positive denominator
Rat(n, d) ==
    LET s == IF d < 0 THEN -1 ELSE 1
        g == Gcd(Abs(n), Abs(d))
    IN  [n |-> (s * n) \div g, d |-> (s * d) \div g]

RInt(i) == [n |-> i, d |-> 1]
RAdd(a, b) == Rat(a.n * b.d + b.n * a.d, a.d * b.d)
RSub(a, b) == Rat(a.n * b.d - b.n * a.d, a.d * b.d)
RMul(a, b) == Rat(a.n * b.n, a.d * b.d)
RDiv(a, b) == Rat(a.n * b.d, a.d * b.n)
RLe(a, b) == a.n * b.d <= b.n * a.d
RLt(a, b) == a.n * b.d < b.n * a.d
RMin(a, b) == IF RLe(a, b) THEN a ELSE b
RMax(a, b) == IF RLe(a, b) THEN b ELSE a
RFloor(a) == a.n \div a.d

RECURSIVE RMinOf(_)
RMinOf(s) == IF Len(s) = 1 THEN s[1] ELSE RMin(s[1], RMinOf(Tail(s)))
RECURSIVE RMaxOf(_)
RMaxOf(s) == IF Len(s) = 1 THEN s[1] ELSE RMax(s[1], RMaxOf(Tail(s)))

----------------------------------------------------------------------------
(* Bitmaps: the set of painted pixels, each with its colour; the empty set *)
(* is a fully transparent canvas.                                          *)

CanvasSize == 5000

EmptyBitmap == {}

InCanvas(px, py) == px >= 0 /\ px < CanvasSize /\ py >= 0 /\ py < CanvasSize

\* colour left by stroking colour c over a pixel holding old ("none" = transparent)
Composite(old, c) ==
    IF c = "highlight"
    THEN (IF old = "none" THEN "highlight" ELSE IF old = "highlight" THEN "highlight" ELSE "blend")
    ELSE c

ColourAt(b, px, py) ==
    IF \E m \in b : m.x = px /\ m.y = py
    THEN (CHOOSE m \in b : m.x = px /\ m.y = py).c
    ELSE "none"

\* ctx.stroke() reaching the pixel under scene point pt with colour c
Paint(b, pt, c) ==
    LET px == RFloor(pt.x)
        py == RFloor(pt.y)
    IN  IF InCanvas(px, py)
        THEN {m \in b : ~(m.x = px /\ m.y = py)}
                \cup {[x |-> px, y |-> py, c |-> Composite(ColourAt(b, px, py), c)]}
        ELSE b

\* ctx.drawImage(src, 0, 0): source-over compositing of src onto b
DrawImage(b, src) ==
    {m \in b : ~(\E s \in src : s.x = m.x /\ s.y = m.y)} \cup src

\* canvas.toDataURL() and the decoding of that URL by an Image element
ToDataURL(b) == [mime |-> "image/png", pixels |-> b]
DecodeImage(url) == url.pixels

----------------------------------------------------------------------------
(* Sessions and cards.                                                     *)

NoChat == 0

DefaultCardWidth == 300
DefaultCardHeight == 200

\* handleNewChat's Chat literal
NewChatRecord(t) ==
    [id |-> t, contextText |-> "", visualCards |-> <<>>, generatedVisuals |-> <<>>,
     drawingHistory |-> <<>>, drawingHistoryIndex |-> -1]

\* chats.find(c => c.id === activeChatId)
HasChat(cs, id) == \E i \in DOMAIN cs : cs[i].id = id
FindChat(cs, id) ==
    cs[CHOOSE i \in DOMAIN cs : cs[i].id = id /\ \A j \in 1..(i - 1) : cs[j].id # id]
HasActiveChat == HasChat(chats, activeChatId)
activeChat == FindChat(chats, activeChatId)

\* updateActiveChat with the activeChatId its caller closed over
UpdateChat(cs, id, F(_)) == [i \in DOMAIN cs |-> IF cs[i].id = id THEN F(cs[i]) ELSE cs[i]]

\* saveState: what JSON.stringify writes, with the ink history stripped
SaveState(cs, aid) ==
    <<[chats |-> [i \in DOMAIN cs |->
                    [cs[i] EXCEPT !.drawingHistory = <<>>, !.drawingHistoryIndex = 0]],
       activeChatId |-> aid]>>

\* the saveState effect, run after every render
Saved == localStorage' = SaveState(chats', activeChatId')

Op(name) == [op |-> name]

\* the values held by useState in App
ReactState ==
    <<chats, activeChatId, activeTool, isDrawing, lassoPath, selectedCardIds,
      selectionBounds, aiMenuPosition, toasts>>

\* a handler that set some state is followed by a render, which reads the
\* scale of the pan/zoom ref for the cards; writes to the ref alone (wheel,
\* pan) cause no render
Render ==
    renderedScale' = IF ReactState' # ReactState THEN panZoom'.scale ELSE renderedScale

\* observation of the scenario "n strokes, then undos" on a new session, for
\* n up to MaxScript: clean while nothing else has touched the ink since the
\* session was new
MaxScript == 4
NewScript == [strokes |-> 0, undos |-> 0, clean |-> TRUE, placed |-> {}, repeated |-> FALSE,
     conflict |-> FALSE, down |-> <<>>]
DirtyScript == [strokes |-> 0, undos |-> 0, clean |-> FALSE, placed |-> {}, repeated |-> FALSE,
     conflict |-> FALSE, down |-> <<>>]
InkScript(sc, op) ==
    IF ~sc.clean
    THEN sc
    ELSE IF op.op = "mouseUp" /\ op.did = "commit"
    THEN (IF sc.undos = 0 /\ sc.strokes < MaxScript
          THEN [sc EXCEPT !.strokes = @ + 1] ELSE DirtyScript)
    ELSE IF op.op = "undo"
    THEN (IF sc.undos < sc.strokes THEN [sc EXCEPT !.undos = @ + 1] ELSE DirtyScript)
    ELSE IF op.op \in {"wipe", "convertText", "newChat", "selectChat", "deleteChat", "reload"}
    THEN DirtyScript
    ELSE sc

\* the scene transform a handler reads from panZoomRef
TransformOf(pz) == [scale |-> pz.scale, panX |-> pz.panX, panY |-> pz.panY]

\* the ink observation; the planner observation is left as it is
NextScript(sc, op) ==
    [InkScript(sc, op) EXCEPT !.placed = sc.placed, !.repeated = sc.repeated,
                              !.conflict = sc.conflict, !.down = sc.down]

\* observation of a gesture with a tool startDrawing ignores: the client
\* point of the pointer-down, until the pointer is released
GestureScript(sc, op) ==
    [NextScript(sc, op) EXCEPT
        !.down = IF op.op = "mouseDown" /\ op.did = "nothing" THEN <<[cx |-> op.cx, cy |-> op.cy]>>
                 ELSE IF op.op = "mouseUp" THEN <<>>
                 ELSE sc.down]

\* observation of the placement planner: the first MaxPlaced calls (card
\* list, scene transform - the viewport never changes - and the position
\* returned), whether a later call repeated the inputs of a recorded one, and
\* whether it then returned another position
MaxPlaced == 2
PlannerScript(sc, op) ==
    IF op.op = "sidebarVisualClick" /\ op.did = "newCard"
    THEN LET same == {a \in sc.placed : /\ a.cards = op.before
                                        /\ a.transform = TransformOf(op.pz)}
         IN  [NextScript(sc, op) EXCEPT
                !.placed = IF Cardinality(sc.placed) < MaxPlaced /\ same = {}
                           THEN sc.placed \cup {[cards |-> op.before,
                                                 transform |-> TransformOf(op.pz),
                                                 position |-> op.card.position]}
                           ELSE sc.placed,
                !.repeated = sc.repeated \/ same # {},
                !.conflict = sc.conflict
                             \/ \E a \in same : a.position # op.card.position]
    ELSE NextScript(sc, op)
Observe == script' = NextScript(script, lastOp')
ObservePlanner == script' = PlannerScript(script, lastOp')
ObserveGesture == script' = GestureScript(script, lastOp')

----------------------------------------------------------------------------
(* Construction.                                                           *)

StartTime == 1

InitialPanZoom ==
    [scale |-> RInt(1), panX |-> RInt(0), panY |-> RInt(0),
     isPanning |-> FALSE, startPanX |-> 0, startPanY |-> 0]

InitialCtx == [strokeStyle |-> "none", path |-> <<>>]

\* the component state after mounting with the given sessions
Mounted(cs, aid, t) ==
    /\ chats = cs
    /\ activeChatId = aid
    /\ canvas = EmptyBitmap
    /\ previewCanvas = EmptyBitmap
    /\ activeTool = "select"
    /\ isDrawing = FALSE
    /\ drawStartCoords = [x |-> RInt(0), y |-> RInt(0)]
    /\ lassoPath = <<>>
    /\ selectedCardIds = <<>>
    /\ selectionBounds = <<>>
    /\ aiMenuPosition = <<>>
    /\ panZoom = InitialPanZoom
    /\ pending = {}
    /\ now = t
    /\ toasts = <<>>
    /\ ctx = InitialCtx
    /\ localStorage = SaveState(cs, aid)
    /\ listeners = <<>>
    /\ renderedScale = InitialPanZoom.scale
    /\ lastOp = Op("mount")
    /\ script = NewScript

\* first start: nothing saved, the mount effect calls handleNewChat
Init == Mounted(<<NewChatRecord(StartTime)>>, StartTime, StartTime)

----------------------------------------------------------------------------
(* Tool bar.                                                               *)

Tools == {"select", "ai-lasso", "text", "notepad", "pen", "highlighter", "eraser",
          "rectangle", "ellipse", "line", "arrow"}
StrokeTools == {"pen", "highlighter", "eraser"}
ShapeTools == {"rectangle", "ellipse", "line", "arrow"}

SetActiveTool(t) ==
    /\ activeTool' = t
    /\ lastOp' = [op |-> "setActiveTool", tool |-> t]
    /\ UNCHANGED <<chats, activeChatId, inkVars, isDrawing, drawStartCoords, lassoPath,
                   selVars, panZoom, pending, now, toasts, localStorage, listeners>>

----------------------------------------------------------------------------
(* Pointer coordinates.                                                    *)

\* whiteboardContainerRef.getBoundingClientRect(): right of the 16rem side
\* bar and below the 3.5rem header
ContainerRect == [left |-> 256, top |-> 56]

\* a conversion that takes the pan off after scaling
ToSceneAfterScale(pz, cx, cy) ==
    [x |-> RSub(RDiv(RInt(cx - ContainerRect.left), pz.scale), pz.panX),
     y |-> RSub(RDiv(RInt(cy - ContainerRect.top), pz.scale), pz.panY)]

\* startDrawing / draw: client pixel to scene point
ToScene(pz, cx, cy) ==
    [x |-> RDiv(RSub(RInt(cx - ContainerRect.left), pz.panX), pz.scale),
     y |-> RDiv(RSub(RInt(cy - ContainerRect.top), pz.panY), pz.scale)]

\* stopDrawing's menu anchor: scene point to container pixel
ToViewport(pz, pt) ==
    [x |-> RAdd(RMul(pt.x, pz.scale), pz.panX),
     y |-> RAdd(RMul(pt.y, pz.scale), pz.panY)]

----------------------------------------------------------------------------
(* Drawing gestures.                                                       *)

\* startDrawing: ctx.strokeStyle and ctx.globalAlpha of the tool
StrokeStyleOf(tool) ==
    IF tool = "eraser" THEN "white"
    ELSE IF tool = "highlighter" THEN "highlight"
    ELSE "ink"

RECURSIVE PaintAll(_, _, _)
PaintAll(b, pts, c) ==
    IF pts = <<>> THEN b ELSE PaintAll(Paint(b, pts[1], c), Tail(pts), c)

\* ctx.stroke() of the current path: a path of one point has no segment
StrokePath(b, path, c) == IF Len(path) >= 2 THEN PaintAll(b, path, c) ELSE b

\* points the outline of a shape from a to b passes through
ShapePoints(tool, a, b) ==
    LET two == RInt(2)
        mx == RAdd(a.x, RDiv(RSub(b.x, a.x), two))
        my == RAdd(a.y, RDiv(RSub(b.y, a.y), two))
    IN  IF tool = "rectangle"
        THEN <<a, [x |-> b.x, y |-> a.y], b, [x |-> a.x, y |-> b.y]>>
        ELSE IF tool = "ellipse"
        THEN <<[x |-> mx, y |-> a.y], [x |-> b.x, y |-> my],
               [x |-> mx, y |-> b.y], [x |-> a.x, y |-> my]>>
        ELSE <<a, b>>

startDrawing(cx, cy) ==
    LET pt == ToScene(panZoom, cx, cy) IN
    IF activeTool \notin (StrokeTools \cup ShapeTools \cup {"ai-lasso"})
    THEN /\ lastOp' = [op |-> "mouseDown", did |-> "nothing", cx |-> cx, cy |-> cy]
         /\ UNCHANGED <<isDrawing, drawStartCoords, lassoPath, ctx>>
    ELSE /\ isDrawing' = TRUE
         /\ drawStartCoords' = pt
         /\ IF activeTool = "ai-lasso"
            THEN /\ lassoPath' = <<pt>>
                 /\ ctx' = ctx
            ELSE /\ ctx' = [strokeStyle |-> StrokeStyleOf(activeTool), path |-> <<pt>>]
                 /\ lassoPath' = lassoPath
         /\ lastOp' = [op |-> "mouseDown", did |-> "startDrawing"]

onMouseDown(cx, cy) ==
    /\ IF activeTool = "select"
       THEN /\ panZoom' = [panZoom EXCEPT !.isPanning = TRUE, !.startPanX = cx, !.startPanY = cy]
            /\ lastOp' = [op |-> "mouseDown", did |-> "startPan"]
            /\ UNCHANGED <<isDrawing, drawStartCoords, lassoPath, ctx>>
       ELSE /\ startDrawing(cx, cy)
            /\ panZoom' = panZoom
    /\ UNCHANGED <<chats, activeChatId, canvas, previewCanvas, activeTool, selVars,
                   pending, now, toasts, localStorage, listeners>>

draw(cx, cy) ==
    LET pt == ToScene(panZoom, cx, cy) IN
    IF ~isDrawing
    THEN /\ lastOp' = [op |-> "mouseMove", did |-> "nothing", cx |-> cx, cy |-> cy]
         /\ UNCHANGED <<lassoPath, canvas, previewCanvas, ctx>>
    ELSE IF activeTool = "ai-lasso"
    THEN /\ lassoPath' = Append(lassoPath, pt)
         \* lassoPath[0].x throws on an empty path, after the preview was cleared
         /\ previewCanvas' = IF lassoPath = <<>> THEN EmptyBitmap
                             ELSE StrokePath(EmptyBitmap, Append(lassoPath, pt), "lasso")
         /\ lastOp' = [op |-> "mouseMove", did |-> "lasso"]
         /\ UNCHANGED <<canvas, ctx>>
    ELSE IF activeTool \in StrokeTools
    THEN /\ ctx' = [ctx EXCEPT !.path = Append(ctx.path, pt)]
         /\ canvas' = StrokePath(canvas, ctx'.path, ctx.strokeStyle)
         /\ lastOp' = [op |-> "mouseMove", did |-> "stroke"]
         /\ UNCHANGED <<lassoPath, previewCanvas>>
    ELSE /\ previewCanvas' = PaintAll(EmptyBitmap, ShapePoints(activeTool, drawStartCoords, pt), "ink")
         /\ lastOp' = [op |-> "mouseMove", did |-> "preview"]
         /\ UNCHANGED <<lassoPath, canvas, ctx>>

onMouseMove(cx, cy) ==
    /\ IF panZoom.isPanning
       THEN /\ panZoom' = [panZoom EXCEPT
                             !.panX = RAdd(@, RInt(cx - panZoom.startPanX)),
                             !.panY = RAdd(@, RInt(cy - panZoom.startPanY)),
                             !.startPanX = cx, !.startPanY = cy]
            /\ lastOp' = [op |-> "mouseMove", did |-> "pan"]
            /\ UNCHANGED <<lassoPath, canvas, previewCanvas, ctx>>
       ELSE /\ draw(cx, cy)
            /\ panZoom' = panZoom
    /\ UNCHANGED <<chats, activeChatId, activeTool, isDrawing, drawStartCoords, selVars,
                   pending, now, toasts, localStorage, listeners>>

\* the centre stopDrawing computes for a card: left + (width || 300) / 2, top + 100
CardWidthOr(c, dflt) == IF c.width = <<>> \/ c.width[1].n = 0 THEN RInt(dflt) ELSE c.width[1]
LassoCentre(c) ==
    [x |-> RAdd(c.position.left, RDiv(CardWidthOr(c, DefaultCardWidth), RInt(2))),
     y |-> RAdd(c.position.top, RInt(100))]

InBox(pt, box) ==
    /\ RLe(box.minX, pt.x) /\ RLe(pt.x, box.maxX)
    /\ RLe(box.minY, pt.y) /\ RLe(pt.y, box.maxY)

\* Math.min / Math.max over the path's coordinates
BoundingBox(path) ==
    LET xs == [i \in DOMAIN path |-> path[i].x]
        ys == [i \in DOMAIN path |-> path[i].y]
    IN  [minX |-> RMinOf(xs), maxX |-> RMaxOf(xs), minY |-> RMinOf(ys), maxY |-> RMaxOf(ys)]

\* visualCards.filter(centre inside the box).map(c => c.id)
CapturedIds(cards, box) ==
    LET inside == SelectSeq(cards, LAMBDA c : InBox(LassoCentre(c), box))
    IN  [i \in DOMAIN inside |-> inside[i].id]

HistoryCap == 20

\* a push that overwrites the newest snapshot
PushSnapshotReplacing(h, url) ==
    IF h = <<>> THEN <<url>> ELSE Append(SubSeq(h, 1, Len(h) - 1), url)

\* the history push of stopDrawing and handleAiMenuAction
PushSnapshot(h, url) == Append(IF Len(h) > HistoryCap THEN Tail(h) ELSE h, url)

CommitSnapshot(cs, aid, base, bitmap) ==
    LET newHistory == PushSnapshot(base, ToDataURL(bitmap))
        Updater(c) == [c EXCEPT !.drawingHistory = newHistory,
                                !.drawingHistoryIndex = Len(newHistory) - 1]
    IN  UpdateChat(cs, aid, Updater)

stopDrawing ==
    IF ~isDrawing
    THEN /\ lastOp' = [op |-> "mouseUp", did |-> "nothing"]
         /\ UNCHANGED <<chats, isDrawing, lassoPath, canvas, previewCanvas, selVars>>
    ELSE IF activeTool = "ai-lasso"
    THEN /\ isDrawing' = FALSE
         /\ IF Len(lassoPath) > 2
            THEN LET box == BoundingBox(lassoPath)
                     lastPt == ToViewport(panZoom, lassoPath[Len(lassoPath)])
                 IN  /\ selectionBounds' = <<box>>
                     /\ selectedCardIds' =
                            IF HasActiveChat THEN CapturedIds(activeChat.visualCards, box)
                            ELSE <<>>
                     /\ aiMenuPosition' = <<[top |-> RAdd(lastPt.y, RInt(60)), left |-> lastPt.x]>>
                     /\ lastOp' = [op |-> "mouseUp", did |-> "lasso", path |-> lassoPath]
            ELSE /\ UNCHANGED selVars
                 /\ lastOp' = [op |-> "mouseUp", did |-> "shortLasso", path |-> lassoPath]
         /\ lassoPath' = <<>>
         /\ previewCanvas' = EmptyBitmap
         /\ UNCHANGED <<chats, canvas>>
    ELSE /\ isDrawing' = FALSE
         /\ IF activeTool \in ShapeTools
            THEN /\ canvas' = DrawImage(canvas, previewCanvas)
                 /\ previewCanvas' = EmptyBitmap
            ELSE UNCHANGED <<canvas, previewCanvas>>
         /\ IF HasActiveChat
            THEN /\ chats' = CommitSnapshot(chats, activeChatId, activeChat.drawingHistory, canvas')
                 /\ lastOp' = [op |-> "mouseUp", did |-> "commit",
                               prevHistory |-> activeChat.drawingHistory,
                               prevIndex |-> activeChat.drawingHistoryIndex]
            ELSE /\ chats' = chats
                 /\ lastOp' = [op |-> "mouseUp", did |-> "noSession"]
         /\ UNCHANGED <<lassoPath, selVars>>

\* a pointer-up that goes back to the select tool after a shape
onMouseUpReverting ==
    /\ panZoom' = [panZoom EXCEPT !.isPanning = FALSE]
    /\ stopDrawing
    /\ activeTool' = IF isDrawing /\ activeTool \in ShapeTools THEN "select" ELSE activeTool
    /\ UNCHANGED <<activeChatId, drawStartCoords, ctx, pending, now, toasts>>
    /\ Saved
    /\ listeners' = listeners

onMouseUp ==
    /\ panZoom' = [panZoom EXCEPT !.isPanning = FALSE]
    /\ stopDrawing
    /\ UNCHANGED <<activeChatId, activeTool, drawStartCoords, ctx, pending, now, toasts>>
    /\ Saved
    /\ listeners' = listeners

----------------------------------------------------------------------------
(* Undo, redo, wipe.                                                       *)

\* the smallest identity no callback in flight has
FreshRid == CHOOSE r \in 1..(Cardinality(pending) + 1) : \A q \in pending : q.rid # r

\* handleUndo up to img.src = ...: the snapshot starts loading
handleUndo ==
    /\ IF ~HasActiveChat \/ activeChat.drawingHistoryIndex <= 0
       THEN /\ pending' = pending
            /\ lastOp' = [op |-> "undo", did |-> "nothing"]
       ELSE LET newIndex == activeChat.drawingHistoryIndex - 1 IN
            \* history[newIndex] is undefined past the end: the image never loads
            IF newIndex + 1 > Len(activeChat.drawingHistory)
            THEN /\ pending' = pending
                 /\ lastOp' = [op |-> "undo", did |-> "noImage"]
            ELSE /\ pending' = pending \cup
                        {[rid |-> FreshRid, kind |-> "undoLoad", chatId |-> activeChatId,
                          newIndex |-> newIndex,
                          src |-> activeChat.drawingHistory[newIndex + 1]]}
                 /\ lastOp' = [op |-> "undo", did |-> "load"]
    /\ UNCHANGED <<chats, activeChatId, inkVars, toolVars, selVars, panZoom, now, toasts,
                   localStorage, listeners>>

\* an onload that also drops the snapshots after the restored one
undoImageLoadedTruncating(r) ==
    /\ r \in pending /\ r.kind = "undoLoad"
    /\ pending' = pending \ {r}
    /\ canvas' = DrawImage(EmptyBitmap, DecodeImage(r.src))
    /\ LET Updater(c) == [c EXCEPT !.drawingHistoryIndex = r.newIndex,
                                   !.drawingHistory = SubSeq(@, 1, r.newIndex + 1)]
       IN  chats' = UpdateChat(chats, r.chatId, Updater)
    /\ lastOp' = [op |-> "undoLoaded", chatId |-> r.chatId, newIndex |-> r.newIndex,
                  prevCanvas |-> canvas, prevChats |-> chats]
    /\ UNCHANGED <<activeChatId, previewCanvas, ctx, toolVars, selVars, panZoom, now, toasts,
                   listeners>>
    /\ Saved

\* img.onload of handleUndo
undoImageLoaded(r) ==
    /\ r \in pending /\ r.kind = "undoLoad"
    /\ pending' = pending \ {r}
    /\ canvas' = DrawImage(EmptyBitmap, DecodeImage(r.src))
    /\ LET Updater(c) == [c EXCEPT !.drawingHistoryIndex = r.newIndex]
       IN  chats' = UpdateChat(chats, r.chatId, Updater)
    /\ lastOp' = [op |-> "undoLoaded", chatId |-> r.chatId, newIndex |-> r.newIndex,
                  prevCanvas |-> canvas, prevChats |-> chats]
    /\ UNCHANGED <<activeChatId, previewCanvas, ctx, toolVars, selVars, panZoom, now, toasts>>
    /\ Saved
    /\ listeners' = listeners

\* onRedo={() => {}}
onRedo ==
    /\ lastOp' = Op("redo")
    /\ UNCHANGED <<chats, activeChatId, inkVars, toolVars, selVars, panZoom, pending, now,
                   toasts, localStorage, listeners>>

onWipe ==
    /\ canvas' = EmptyBitmap
    /\ LET Updater(c) == [c EXCEPT !.visualCards = <<>>, !.drawingHistory = <<>>,
                                   !.drawingHistoryIndex = -1]
       IN  chats' = UpdateChat(chats, activeChatId, Updater)
    /\ lastOp' = Op("wipe")
    /\ UNCHANGED <<activeChatId, previewCanvas, ctx, toolVars, selVars, panZoom, pending,
                   now, toasts>>
    /\ Saved
    /\ listeners' = listeners

----------------------------------------------------------------------------
(* Reloading the page: the mount effect reads localStorage.                *)

\* the chat list the mount effect builds from the saved entry
LoadChats(entry) == entry[1].chats

onReload ==
    /\ IF localStorage = <<>>
       THEN /\ chats' = <<NewChatRecord(now)>>
            /\ activeChatId' = now
       ELSE /\ chats' = LoadChats(localStorage)
            /\ activeChatId' = localStorage[1].activeChatId
    /\ canvas' = EmptyBitmap
    /\ previewCanvas' = EmptyBitmap
    /\ ctx' = InitialCtx
    /\ activeTool' = "select"
    /\ isDrawing' = FALSE
    /\ drawStartCoords' = [x |-> RInt(0), y |-> RInt(0)]
    /\ lassoPath' = <<>>
    /\ selectedCardIds' = <<>>
    /\ selectionBounds' = <<>>
    /\ aiMenuPosition' = <<>>
    /\ panZoom' = InitialPanZoom
    /\ pending' = {}
    /\ toasts' = <<>>
    /\ now' = now
    /\ lastOp' = Op("reload")
    /\ Saved
    /\ listeners' = <<>>

----------------------------------------------------------------------------
(* Cards.                                                                  *)

\* a VisualCard; optional fields are <<>> when absent and <<v>> when set
Card(id, type, keyword, status, imageUrl, text, top, left, width, colour, visible) ==
    [id |-> id, type |-> type, keyword |-> keyword, status |-> status,
     imageUrl |-> imageUrl, text |-> text, position |-> [top |-> top, left |-> left],
     rotation |-> 0, width |-> width, height |-> <<>>, backgroundColor |-> colour,
     newlyCreated |-> FALSE, visible |-> visible]

CardIds(cards) == {cards[i].id : i \in DOMAIN cards}

\* addToast: the last four toasts and the new one
AddToast(ts, message, type) ==
    Append(SubSeq(ts, IF Len(ts) > 4 THEN Len(ts) - 3 ELSE 1, Len(ts)),
           [message |-> message, type |-> type])

\* onDelete of a card
onDelete(id) ==
    /\ HasActiveChat
    /\ id \in CardIds(activeChat.visualCards)
    /\ LET Updater(c) ==
               [c EXCEPT !.visualCards = SelectSeq(c.visualCards, LAMBDA vc : vc.id # id)]
       IN  chats' = UpdateChat(chats, activeChatId, Updater)
    /\ lastOp' = [op |-> "deleteCard", cardId |-> id]
    /\ UNCHANGED <<activeChatId, inkVars, toolVars, selVars, panZoom, pending, now, toasts>>
    /\ Saved
    /\ listeners' = listeners

\* a planner whose grid drifts with the clock
findNextLogicalCardPositionDrifting(cards) ==
    LET count == Len(cards)
    IN  [top |-> RInt(100 + (count \div 3) * 250 + now), left |-> RInt(100 + (count % 3) * 320)]

\* findNextLogicalCardPosition
findNextLogicalCardPosition(cards) ==
    LET spacing == 320
        cols == 3
        count == Len(cards)
        row == count \div cols
        col == count % cols
    IN  [top |-> RInt(100 + row * 250), left |-> RInt(100 + col * spacing)]

\* handleFileUpload up to its first await, for an image or a text file
handleFileUpload(fileType) ==
    /\ IF ~HasActiveChat
       THEN /\ chats' = <<NewChatRecord(now)>> \o chats
            /\ activeChatId' = now
            /\ pending' = pending
            /\ lastOp' = [op |-> "newChat", from |-> "upload"]
       ELSE /\ pending' = pending \cup
                    {[rid |-> FreshRid, kind |-> "upload", chatId |-> activeChatId,
                      fileType |-> fileType]}
            /\ lastOp' = [op |-> "upload", fileType |-> fileType]
            /\ UNCHANGED <<chats, activeChatId>>
    /\ UNCHANGED <<inkVars, toolVars, selVars, panZoom, now, toasts>>
    /\ Saved
    /\ listeners' = listeners

\* handleFileUpload after the file was read
fileUploadRead(r) ==
    /\ r \in pending /\ r.kind = "upload"
    /\ pending' = pending \ {r}
    /\ LET newCards ==
               IF r.fileType = "image"
               THEN <<Card(<<"img", now>>, "image", "file.png", "loaded", <<"file.png">>, <<>>,
                           RInt(100), RInt(100), <<RInt(400)>>, <<>>, <<>>)>>
               ELSE <<>>
           Updater(c) ==
               [c EXCEPT !.contextText = IF r.fileType = "text" THEN "text" ELSE @,
                         !.visualCards = @ \o newCards]
       IN  chats' = UpdateChat(chats, r.chatId, Updater)
    /\ lastOp' = [op |-> "uploadRead", fileType |-> r.fileType]
    /\ UNCHANGED <<activeChatId, inkVars, toolVars, selVars, panZoom, now, toasts>>
    /\ Saved
    /\ listeners' = listeners

\* the size of the whiteboard container on screen
ViewportSize == [width |-> 640, height |-> 664]

\* panToCard: the pan that centres the card in the viewport
PanTo(pz, card) ==
    LET cardWidth == CardWidthOr(card, DefaultCardWidth)
        cardHeight == IF card.height = <<>> THEN RInt(DefaultCardHeight) ELSE card.height[1]
        two == RInt(2)
    IN  [pz EXCEPT
           !.panX = RSub(RDiv(RInt(ViewportSize.width), two),
                         RMul(RAdd(card.position.left, RDiv(cardWidth, two)), pz.scale)),
           !.panY = RSub(RDiv(RInt(ViewportSize.height), two),
                         RMul(RAdd(card.position.top, RDiv(cardHeight, two)), pz.scale))]

\* handleSidebarVisualClick for the generated visual item
handleSidebarVisualClick(item) ==
    /\ HasActiveChat
    /\ IF \E i \in DOMAIN activeChat.visualCards : activeChat.visualCards[i].keyword = item.keyword
       THEN LET cards == activeChat.visualCards
                existingCard == cards[CHOOSE i \in DOMAIN cards :
                                        cards[i].keyword = item.keyword
                                        /\ \A j \in 1..(i - 1) : cards[j].keyword # item.keyword]
            IN  /\ panZoom' = PanTo(panZoom, existingCard)
                /\ lastOp' = [op |-> "sidebarVisualClick", did |-> "pan"]
                /\ UNCHANGED <<chats, pending>>
       ELSE LET position == findNextLogicalCardPosition(activeChat.visualCards)
                newCard == Card(<<"card", now>>, "image", item.keyword, "loaded",
                                item.imageUrl, <<>>, position.top, position.left,
                                <<RInt(300)>>, <<>>, <<TRUE>>)
                Updater(c) == [c EXCEPT !.visualCards = Append(@, newCard)]
            IN  /\ chats' = UpdateChat(chats, activeChatId, Updater)
                \* setTimeout(() => panToCard(newCard), 100)
                /\ pending' = pending \cup
                       {[rid |-> FreshRid, kind |-> "panLater", card |-> newCard]}
                /\ panZoom' = panZoom
                /\ lastOp' = [op |-> "sidebarVisualClick", did |-> "newCard",
                              before |-> activeChat.visualCards, card |-> newCard,
                              pz |-> panZoom]
    /\ UNCHANGED <<activeChatId, inkVars, toolVars, selVars, now, toasts>>
    /\ Saved
    /\ listeners' = listeners

\* the timer of handleSidebarVisualClick fires
panLaterFired(r) ==
    /\ r \in pending /\ r.kind = "panLater"
    /\ pending' = pending \ {r}
    /\ panZoom' = PanTo(panZoom, r.card)
    /\ lastOp' = Op("panLater")
    /\ UNCHANGED <<chats, activeChatId, inkVars, toolVars, selVars, now, toasts, localStorage, listeners>>

\* handleGenerateVisuals up to the await of extractKeywords
handleGenerateVisuals ==
    /\ HasActiveChat /\ activeChat.contextText # ""
    /\ pending' = pending \cup
           {[rid |-> FreshRid, kind |-> "extractKeywords", chatId |-> activeChatId]}
    /\ lastOp' = Op("generateVisuals")
    /\ UNCHANGED <<chats, activeChatId, inkVars, toolVars, selVars, panZoom, now, toasts,
                   localStorage, listeners>>

\* extractKeywords resolved with the keywords kws: one loading visual and one
\* image request for each of them
keywordsExtracted(r, kws) ==
    /\ r \in pending /\ r.kind = "extractKeywords"
    /\ LET newVisuals == [i \in DOMAIN kws |->
                            [id |-> <<"visual", now, kws[i]>>, keyword |-> kws[i],
                             status |-> "loading", imageUrl |-> <<>>]]
           Updater(c) == [c EXCEPT !.generatedVisuals = @ \o newVisuals]
           rids == CHOOSE f \in [DOMAIN kws -> 1..(Cardinality(pending) + Len(kws))] :
                      /\ \A i, j \in DOMAIN kws : i # j => f[i] # f[j]
                      /\ \A i \in DOMAIN kws : \A q \in pending \ {r} : q.rid # f[i]
       IN  /\ chats' = UpdateChat(chats, r.chatId, Updater)
           /\ pending' = (pending \ {r}) \cup
                  {[rid |-> rids[i], kind |-> "visual", chatId |-> r.chatId,
                    visualId |-> newVisuals[i].id] : i \in DOMAIN kws}
    /\ lastOp' = [op |-> "keywordsExtracted", n |-> Len(kws)]
    /\ UNCHANGED <<activeChatId, inkVars, toolVars, selVars, panZoom, now, toasts>>
    /\ Saved
    /\ listeners' = listeners

\* extractKeywords rejected
keywordsFailed(r) ==
    /\ r \in pending /\ r.kind = "extractKeywords"
    /\ pending' = pending \ {r}
    /\ lastOp' = Op("keywordsFailed")
    /\ UNCHANGED <<chats, activeChatId, inkVars, toolVars, selVars, panZoom, now, toasts,
                   localStorage, listeners>>

\* a settle step whose catch only logs the failure
visualSettledSilentCatch(r, ok, url) ==
    /\ r \in pending /\ r.kind = "visual"
    /\ pending' = pending \ {r}
    /\ LET Updater(c) ==
               [c EXCEPT !.generatedVisuals =
                   [i \in DOMAIN @ |->
                       IF @[i].id = r.visualId /\ ok
                       THEN [@[i] EXCEPT !.status = "loaded", !.imageUrl = <<url>>]
                       ELSE @[i]]]
       IN  chats' = UpdateChat(chats, r.chatId, Updater)
    /\ lastOp' = [op |-> "visualSettled", ok |-> ok]
    /\ UNCHANGED <<activeChatId, inkVars, toolVars, selVars, panZoom, now, toasts>>
    /\ Saved
    /\ listeners' = listeners

\* .then / .catch of generateVisualForKeyword in handleGenerateVisuals
visualSettled(r, ok, url) ==
    /\ r \in pending /\ r.kind = "visual"
    /\ pending' = pending \ {r}
    /\ LET Updater(c) ==
               [c EXCEPT !.generatedVisuals =
                   [i \in DOMAIN @ |->
                       IF @[i].id = r.visualId
                       THEN (IF ok THEN [@[i] EXCEPT !.status = "loaded", !.imageUrl = <<url>>]
                             ELSE [@[i] EXCEPT !.status = "error"])
                       ELSE @[i]]]
       IN  chats' = UpdateChat(chats, r.chatId, Updater)
    /\ lastOp' = [op |-> "visualSettled", ok |-> ok]
    /\ UNCHANGED <<activeChatId, inkVars, toolVars, selVars, panZoom, now, toasts>>
    /\ Saved
    /\ listeners' = listeners

\* the card list after generateVisualForKeyword settled for the card cardId
\* an update that inserts the card when no card has the id
RegenerateResultUpsert(cards, cardId, ok, url) ==
    IF \E i \in DOMAIN cards : cards[i].id = cardId
    THEN [i \in DOMAIN cards |->
            IF cards[i].id = cardId
            THEN [cards[i] EXCEPT !.status = IF ok THEN "loaded" ELSE "error"]
            ELSE cards[i]]
    ELSE Append(cards, Card(cardId, "ai", "", IF ok THEN "loaded" ELSE "error",
                            IF ok THEN <<url>> ELSE <<>>, <<>>, RInt(100), RInt(100),
                            <<>>, <<>>, <<>>))

\* the card list after the request settled: update by id
RegenerateResult(cards, cardId, ok, url) ==
    [i \in DOMAIN cards |->
        IF cards[i].id = cardId
        THEN (IF ok THEN [cards[i] EXCEPT !.status = "loaded", !.imageUrl = <<url>>]
              ELSE [cards[i] EXCEPT !.status = "error"])
        ELSE cards[i]]

\* handleRegenerateVisual up to the request
handleRegenerateVisual(cardId) ==
    /\ HasActiveChat /\ activeChat.contextText # ""
    /\ LET Updater(c) ==
               [c EXCEPT !.visualCards =
                   [i \in DOMAIN @ |-> IF @[i].id = cardId
                                       THEN [@[i] EXCEPT !.status = "loading"] ELSE @[i]]]
       IN  chats' = UpdateChat(chats, activeChatId, Updater)
    /\ pending' = pending \cup
           {[rid |-> FreshRid, kind |-> "regenerate", chatId |-> activeChatId,
             cardId |-> cardId]}
    /\ lastOp' = [op |-> "regenerate", cardId |-> cardId]
    /\ UNCHANGED <<activeChatId, inkVars, toolVars, selVars, panZoom, now, toasts>>
    /\ Saved
    /\ listeners' = listeners

\* the status of the card cardId of the session chatId, "none" without one
StatusOf(cs, chatId, cardId) ==
    IF \E i \in DOMAIN cs : cs[i].id = chatId /\ cardId \in CardIds(cs[i].visualCards)
    THEN LET cards == FindChat(cs, chatId).visualCards
         IN  cards[CHOOSE i \in DOMAIN cards :
                      cards[i].id = cardId /\ \A j \in 1..(i - 1) : cards[j].id # cardId].status
    ELSE "none"

\* a settle step that only writes to a card that is still loading
regenerateSettledFirstWins(r, ok, url) ==
    /\ r \in pending /\ r.kind = "regenerate"
    /\ pending' = pending \ {r}
    /\ LET Updater(c) ==
               [c EXCEPT !.visualCards =
                   [i \in DOMAIN @ |->
                       IF @[i].status = "loading"
                       THEN RegenerateResult(@, r.cardId, ok, url)[i] ELSE @[i]]]
       IN  chats' = UpdateChat(chats, r.chatId, Updater)
    /\ lastOp' = [op |-> "regenerateSettled", ok |-> ok, cardId |-> r.cardId,
                  chatId |-> r.chatId,
                  cardPresent |-> \E i \in DOMAIN chats :
                       chats[i].id = r.chatId /\ r.cardId \in CardIds(chats[i].visualCards),
                  url |-> IF ok THEN <<url>> ELSE <<>>,
                  prevStatus |-> StatusOf(chats, r.chatId, r.cardId)]
    /\ UNCHANGED <<activeChatId, inkVars, toolVars, selVars, panZoom, now, toasts>>
    /\ Saved
    /\ listeners' = listeners

\* .then / .catch of handleRegenerateVisual
regenerateSettled(r, ok, url) ==
    /\ r \in pending /\ r.kind = "regenerate"
    /\ pending' = pending \ {r}
    /\ LET Updater(c) ==
               [c EXCEPT !.visualCards = RegenerateResult(@, r.cardId, ok, url)]
       IN  chats' = UpdateChat(chats, r.chatId, Updater)
    /\ lastOp' = [op |-> "regenerateSettled", ok |-> ok, cardId |-> r.cardId,
                  chatId |-> r.chatId,
                  cardPresent |-> \E i \in DOMAIN chats :
                       chats[i].id = r.chatId /\ r.cardId \in CardIds(chats[i].visualCards),
                  url |-> IF ok THEN <<url>> ELSE <<>>,
                  prevStatus |-> StatusOf(chats, r.chatId, r.cardId)]
    /\ UNCHANGED <<activeChatId, inkVars, toolVars, selVars, panZoom, now, toasts>>
    /\ Saved
    /\ listeners' = listeners

----------------------------------------------------------------------------
(* The AI menu.                                                            *)

\* ctx.clearRect(x, y, w, h): the pixels lying inside the rectangle
ClearRect(b, x, y, w, h) ==
    {m \in b : ~(/\ RLe(x, RInt(m.x)) /\ RLe(RInt(m.x + 1), RAdd(x, w))
                 /\ RLe(y, RInt(m.y)) /\ RLe(RInt(m.y + 1), RAdd(y, h)))}

\* cards.filter(selected).map(text || keyword).join().trim() is not empty
HasSelectedText(cards, ids) ==
    \E i \in DOMAIN cards :
        /\ \E j \in DOMAIN ids : ids[j] = cards[i].id
        /\ (cards[i].text # <<>> \/ cards[i].keyword # "")

\* handleAiMenuAction up to its await
handleAiMenuAction(action) ==
    /\ IF action = "convert-text" /\ selectionBounds # <<>>
       THEN /\ pending' = pending \cup
                    {[rid |-> FreshRid, kind |-> "recognize", chatId |-> activeChatId,
                      hadChat |-> HasActiveChat, bounds |-> selectionBounds[1],
                      baseHistory |-> IF HasActiveChat THEN activeChat.drawingHistory
                                      ELSE <<>>]}
            /\ toasts' = toasts
            /\ lastOp' = [op |-> "aiMenu", did |-> "recognize"]
       ELSE IF selectedCardIds = <<>> \/ ~HasActiveChat
       THEN /\ UNCHANGED <<pending, toasts>>
            /\ lastOp' = [op |-> "aiMenu", did |-> "nothing"]
       ELSE IF ~HasSelectedText(activeChat.visualCards, selectedCardIds)
       THEN /\ toasts' = AddToast(toasts, "Selected items have no text content.", "error")
            /\ pending' = pending
            /\ lastOp' = [op |-> "aiMenu", did |-> "noText"]
       ELSE LET cards == activeChat.visualCards
                found == {i \in DOMAIN cards : cards[i].id = selectedCardIds[1]}
                firstCard == IF found = {} THEN <<>>
                             ELSE <<cards[CHOOSE i \in found : \A j \in found : i <= j]>>
            IN  /\ pending' = pending \cup
                       {[rid |-> FreshRid, kind |-> "aiAction", chatId |-> activeChatId,
                         action |-> action, firstCard |-> firstCard]}
                /\ toasts' = toasts
                /\ lastOp' = [op |-> "aiMenu", did |-> "aiAction"]
    /\ UNCHANGED <<chats, activeChatId, inkVars, toolVars, selVars, panZoom, now, localStorage, listeners>>

\* a conversion that leaves an empty note behind when recognition failed
recognizeSettledPartial(r, ok, text) ==
    /\ r \in pending /\ r.kind = "recognize"
    /\ pending' = pending \ {r}
    /\ LET newCard == Card(<<"card", now>>, "text", "Handwritten Note", "loaded", <<>>,
                           <<text>>, r.bounds.minY, r.bounds.minX, <<RInt(200)>>,
                           <<"transparent">>, <<>>)
           Updater(c) == [c EXCEPT !.visualCards = Append(@, newCard)]
       IN  chats' = IF r.hadChat THEN UpdateChat(chats, r.chatId, Updater) ELSE chats
    /\ toasts' = AddToast(toasts, IF ok THEN "Handwriting converted to text."
                                  ELSE "Failed to convert handwriting.",
                          IF ok THEN "success" ELSE "error")
    /\ lastOp' = [op |-> IF ok THEN "convertDone" ELSE "convertFailed", chatId |-> r.chatId]
    /\ aiMenuPosition' = <<>>
    /\ selectionBounds' = <<>>
    /\ UNCHANGED <<activeChatId, inkVars, toolVars, selectedCardIds, panZoom, now>>
    /\ Saved
    /\ listeners' = listeners

\* handleAiMenuAction after recognizeHandwriting settled
recognizeSettled(r, ok, text) ==
    /\ r \in pending /\ r.kind = "recognize"
    /\ pending' = pending \ {r}
    /\ LET width == RSub(r.bounds.maxX, r.bounds.minX)
           height == RSub(r.bounds.maxY, r.bounds.minY)
           newCard == Card(<<"card", now>>, "text", "Handwritten Note", "loaded", <<>>,
                           <<text>>, r.bounds.minY, r.bounds.minX,
                           <<IF RLt(RInt(200), width) THEN width ELSE RInt(200)>>,
                           <<"transparent">>, <<>>)
           cleared == ClearRect(canvas, RSub(r.bounds.minX, RInt(5)),
                                RSub(r.bounds.minY, RInt(5)),
                                RAdd(width, RInt(10)), RAdd(height, RInt(10)))
           newHistory == PushSnapshot(r.baseHistory, ToDataURL(cleared))
           Updater(c) == [c EXCEPT !.visualCards = Append(@, newCard),
                                   !.drawingHistory = newHistory,
                                   !.drawingHistoryIndex = Len(newHistory) - 1]
       IN  IF ok
           THEN /\ canvas' = cleared
                /\ chats' = IF r.hadChat THEN UpdateChat(chats, r.chatId, Updater) ELSE chats
                /\ toasts' = AddToast(toasts, "Handwriting converted to text.", "success")
                /\ lastOp' = [op |-> "convertText", bounds |-> r.bounds, card |-> newCard,
                              chatId |-> r.chatId]
           ELSE /\ UNCHANGED <<canvas, chats>>
                /\ toasts' = AddToast(toasts, "Failed to convert handwriting.", "error")
                /\ lastOp' = [op |-> "convertFailed", chatId |-> r.chatId]
    /\ aiMenuPosition' = <<>>
    /\ selectionBounds' = <<>>
    /\ UNCHANGED <<activeChatId, previewCanvas, ctx, toolVars, selectedCardIds, panZoom, now>>
    /\ Saved
    /\ listeners' = listeners

\* a settle step that looks up the active session when the answer arrives
aiActionSettledOnActive(r, ok, text) ==
    /\ r \in pending /\ r.kind = "aiAction"
    /\ pending' = pending \ {r}
    /\ LET newPos == IF r.firstCard # <<>>
                     THEN [top |-> r.firstCard[1].position.top,
                           left |-> RAdd(RAdd(r.firstCard[1].position.left,
                                              CardWidthOr(r.firstCard[1], 300)), RInt(20))]
                     ELSE [top |-> RInt(100), left |-> RInt(100)]
           newCard == Card(<<"card", now>>, "text", r.action, "loaded", <<>>, <<text>>,
                           newPos.top, newPos.left, <<RInt(300)>>, <<"#f0fdf4">>, <<>>)
           Updater(c) == [c EXCEPT !.visualCards = Append(@, newCard)]
       IN  IF ok
           THEN /\ chats' = UpdateChat(chats, activeChatId, Updater)
                /\ toasts' = toasts
                /\ lastOp' = [op |-> "aiActionResolved", card |-> newCard, chatId |-> r.chatId]
           ELSE /\ chats' = chats
                /\ toasts' = AddToast(toasts, "AI action failed.", "error")
                /\ lastOp' = [op |-> "aiActionFailed", chatId |-> r.chatId]
    /\ UNCHANGED <<activeChatId, inkVars, toolVars, selVars, panZoom, now>>
    /\ Saved
    /\ listeners' = listeners

\* handleAiMenuAction after performAiAction settled
aiActionSettled(r, ok, text) ==
    /\ r \in pending /\ r.kind = "aiAction"
    /\ pending' = pending \ {r}
    /\ LET newPos == IF r.firstCard # <<>>
                     THEN [top |-> r.firstCard[1].position.top,
                           left |-> RAdd(RAdd(r.firstCard[1].position.left,
                                              CardWidthOr(r.firstCard[1], 300)), RInt(20))]
                     ELSE [top |-> RInt(100), left |-> RInt(100)]
           newCard == Card(<<"card", now>>, "text", r.action, "loaded", <<>>, <<text>>,
                           newPos.top, newPos.left, <<RInt(300)>>, <<"#f0fdf4">>, <<>>)
           Updater(c) == [c EXCEPT !.visualCards = Append(@, newCard)]
       IN  IF ok
           THEN /\ chats' = UpdateChat(chats, r.chatId, Updater)
                /\ toasts' = toasts
                /\ lastOp' = [op |-> "aiActionResolved", card |-> newCard, chatId |-> r.chatId]
           ELSE /\ chats' = chats
                /\ toasts' = AddToast(toasts, "AI action failed.", "error")
                /\ lastOp' = [op |-> "aiActionFailed", chatId |-> r.chatId]
    /\ UNCHANGED <<activeChatId, inkVars, toolVars, selVars, panZoom, now>>
    /\ Saved
    /\ listeners' = listeners

----------------------------------------------------------------------------
(* Wheel, clock, sessions.                                                 *)

\* a wheel handler without the clamp of the new scale
onWheelUnclamped(ctrl, deltaX, deltaY, cx, cy) ==
    /\ IF ctrl
       THEN LET zoomSensitivity == Rat(1, 1000)
                newScale == RSub(panZoom.scale, RMul(RInt(deltaY), zoomSensitivity))
            IN  panZoom' = [panZoom EXCEPT !.scale = newScale]
       ELSE panZoom' = [panZoom EXCEPT !.panX = RSub(@, RInt(deltaX)),
                                       !.panY = RSub(@, RInt(deltaY))]
    /\ lastOp' = [op |-> "wheel", zoom |-> ctrl, cx |-> cx, cy |-> cy, before |-> panZoom]
    /\ UNCHANGED <<chats, activeChatId, inkVars, toolVars, selVars, pending, now, toasts,
                   localStorage, listeners>>

\* onWheel: zoom with ctrl/meta held, pan otherwise; (cx, cy) is the pointer
onWheel(ctrl, deltaX, deltaY, cx, cy) ==
    /\ IF ctrl
       THEN LET zoomSensitivity == Rat(1, 1000)
                newScale == RMin(RMax(Rat(1, 10),
                                      RSub(panZoom.scale, RMul(RInt(deltaY), zoomSensitivity))),
                                 RInt(5))
            IN  panZoom' = [panZoom EXCEPT !.scale = newScale]
       ELSE panZoom' = [panZoom EXCEPT !.panX = RSub(@, RInt(deltaX)),
                                       !.panY = RSub(@, RInt(deltaY))]
    /\ lastOp' = [op |-> "wheel", zoom |-> ctrl, cx |-> cx, cy |-> cy, before |-> panZoom]
    /\ UNCHANGED <<chats, activeChatId, inkVars, toolVars, selVars, pending, now, toasts,
                   localStorage, listeners>>

\* a millisecond passes
Tick ==
    /\ now' = now + 1
    /\ lastOp' = Op("tick")
    /\ UNCHANGED <<chats, activeChatId, inkVars, toolVars, selVars, panZoom, pending, toasts,
                   localStorage, listeners>>

handleNewChat ==
    /\ chats' = <<NewChatRecord(now)>> \o chats
    /\ activeChatId' = now
    /\ lastOp' = [op |-> "newChat", from |-> "button"]
    /\ UNCHANGED <<inkVars, toolVars, selVars, panZoom, pending, now, toasts>>
    /\ Saved
    /\ listeners' = listeners

\* ChatItem onSelect
onSelectChat(id) ==
    /\ activeChatId' = id
    /\ lastOp' = [op |-> "selectChat", chatId |-> id]
    /\ UNCHANGED <<chats, inkVars, toolVars, selVars, panZoom, pending, now, toasts>>
    /\ Saved
    /\ listeners' = listeners

\* ChatItem onDelete
onDeleteChat(id) ==
    /\ chats' = SelectSeq(chats, LAMBDA c : c.id # id)
    /\ lastOp' = [op |-> "deleteChat", chatId |-> id]
    /\ UNCHANGED <<activeChatId, inkVars, toolVars, selVars, panZoom, pending, now, toasts>>
    /\ Saved
    /\ listeners' = listeners

\* props.card of the component with key id: the first card of the list with it
CardOf(cards, id) ==
    cards[CHOOSE i \in DOMAIN cards : cards[i].id = id /\ \A j \in 1..(i - 1) : cards[j].id # id]

\* useState isDragging of the mounted component of card id: set by its
\* handleMouseDown, cleared by its handleMouseUp, which also removes the
\* listeners
CardIsDragging(id) ==
    \E i \in DOMAIN listeners : listeners[i].cardId = id /\ listeners[i].chatId = activeChatId

\* a press that adds the card to the selection whenever a modifier is held
cardMouseDownAdding(id, multi, cx, cy) ==
    /\ HasActiveChat
    /\ id \in CardIds(activeChat.visualCards)
    /\ selectedCardIds' =
           IF multi THEN Append(selectedCardIds, id) ELSE <<id>>
    /\ aiMenuPosition' = IF activeTool = "select"
                         THEN <<[top |-> RInt(cy + 20), left |-> RInt(cx + 20)]>>
                         ELSE aiMenuPosition
    /\ selectionBounds' = selectionBounds
    /\ LET card == CardOf(activeChat.visualCards, id)
           start == [x |-> cx, y |-> cy, top |-> card.position.top,
                     left |-> card.position.left]
           \* dragStartPos is a ref: the listeners of earlier renders see the new value
           restarted == [i \in DOMAIN listeners |->
                           IF listeners[i].cardId = id /\ listeners[i].chatId = activeChatId
                           THEN [listeners[i] EXCEPT !.dragStartPos = start]
                           ELSE listeners[i]]
       IN  listeners' = Append(restarted,
                               [cardId |-> id, chatId |-> activeChatId,
                                isDragging |-> CardIsDragging(id), card |-> card,
                                scale |-> renderedScale, dragStartPos |-> start])
    /\ IF activeTool = "select"
       THEN /\ panZoom' = [panZoom EXCEPT !.isPanning = TRUE, !.startPanX = cx, !.startPanY = cy]
            /\ lastOp' = [op |-> "cardMouseDown", cardId |-> id, multi |-> multi]
            /\ UNCHANGED <<isDrawing, drawStartCoords, lassoPath, ctx>>
       ELSE /\ startDrawing(cx, cy)
            /\ panZoom' = panZoom
    /\ UNCHANGED <<chats, activeChatId, canvas, previewCanvas, activeTool,
                   pending, now, toasts, localStorage>>

\* VisualCardComponent handleMouseDown on the card body: onSelect, the drag
\* start with the window listeners of this render, then the event bubbles to
\* the whiteboard's onMouseDown
cardMouseDown(id, multi, cx, cy) ==
    /\ HasActiveChat
    /\ id \in CardIds(activeChat.visualCards)
    /\ selectedCardIds' =
           IF multi
           THEN (IF \E i \in DOMAIN selectedCardIds : selectedCardIds[i] = id
                 THEN SelectSeq(selectedCardIds, LAMBDA i : i # id)
                 ELSE Append(selectedCardIds, id))
           ELSE <<id>>
    /\ aiMenuPosition' = IF activeTool = "select"
                         THEN <<[top |-> RInt(cy + 20), left |-> RInt(cx + 20)]>>
                         ELSE aiMenuPosition
    /\ selectionBounds' = selectionBounds
    /\ LET card == CardOf(activeChat.visualCards, id)
           start == [x |-> cx, y |-> cy, top |-> card.position.top,
                     left |-> card.position.left]
           \* dragStartPos is a ref: the listeners of earlier renders see the new value
           restarted == [i \in DOMAIN listeners |->
                           IF listeners[i].cardId = id /\ listeners[i].chatId = activeChatId
                           THEN [listeners[i] EXCEPT !.dragStartPos = start]
                           ELSE listeners[i]]
       IN  listeners' = Append(restarted,
                               [cardId |-> id, chatId |-> activeChatId,
                                isDragging |-> CardIsDragging(id), card |-> card,
                                scale |-> renderedScale, dragStartPos |-> start])
    /\ IF activeTool = "select"
       THEN /\ panZoom' = [panZoom EXCEPT !.isPanning = TRUE, !.startPanX = cx, !.startPanY = cy]
            /\ lastOp' = [op |-> "cardMouseDown", cardId |-> id, multi |-> multi]
            /\ UNCHANGED <<isDrawing, drawStartCoords, lassoPath, ctx>>
       ELSE /\ startDrawing(cx, cy)
            /\ panZoom' = panZoom
    /\ UNCHANGED <<chats, activeChatId, canvas, previewCanvas, activeTool,
                   pending, now, toasts, localStorage>>

\* onUpdate(updatedCard) as the listener's render bound it
DragUpdate(cs, l, cx, cy) ==
    LET dx == RDiv(RInt(cx - l.dragStartPos.x), l.scale)
        dy == RDiv(RInt(cy - l.dragStartPos.y), l.scale)
        updatedCard == [l.card EXCEPT !.position =
                           [top |-> RAdd(l.dragStartPos.top, dy),
                            left |-> RAdd(l.dragStartPos.left, dx)]]
        Updater(c) == [c EXCEPT !.visualCards =
                          [i \in DOMAIN @ |-> IF @[i].id = updatedCard.id THEN updatedCard
                                              ELSE @[i]]]
    IN  IF l.isDragging THEN UpdateChat(cs, l.chatId, Updater) ELSE cs

RECURSIVE DragAll(_, _, _, _)
DragAll(cs, ls, cx, cy) ==
    IF ls = <<>> THEN cs ELSE DragAll(DragUpdate(cs, ls[1], cx, cy), Tail(ls), cx, cy)

\* VisualCardComponent handleMouseMove: the window's mousemove reaches every
\* registered listener
cardMouseMove(cx, cy) ==
    /\ listeners # <<>>
    /\ chats' = DragAll(chats, listeners, cx, cy)
    /\ lastOp' = [op |-> "cardMouseMove", cx |-> cx, cy |-> cy]
    /\ UNCHANGED <<activeChatId, inkVars, toolVars, selVars, panZoom, pending, now, toasts,
                   listeners>>
    /\ Saved

\* VisualCardComponent handleMouseUp: every listener clears isDragging and
\* removes itself
cardMouseUp ==
    /\ listeners # <<>>
    /\ listeners' = <<>>
    /\ lastOp' = Op("cardMouseUp")
    /\ UNCHANGED <<chats, activeChatId, inkVars, toolVars, selVars, panZoom, pending, now,
                   toasts, localStorage>>

\* a click on a card: the press, the whiteboard's onMouseUp and the window's
\* mouseup listeners of the same release, with no other handler in between
Click == listeners # <<>> => lastOp'.op = (IF lastOp.op = "mouseUp" THEN "cardMouseUp" ELSE "mouseUp")

\* card.visible ?? true
IsVisible(c) == c.visible = <<>> \/ c.visible[1]

\* VisualCardComponent toggleVisibility: the eye button of the card
toggleVisibility(id) ==
    /\ HasActiveChat
    /\ id \in CardIds(activeChat.visualCards)
    /\ LET card == CardOf(activeChat.visualCards, id)
           updatedCard == [card EXCEPT !.visible = <<~IsVisible(card)>>]
           Updater(c) == [c EXCEPT !.visualCards =
                             [i \in DOMAIN @ |-> IF @[i].id = updatedCard.id THEN updatedCard
                                                 ELSE @[i]]]
       IN  /\ chats' = UpdateChat(chats, activeChatId, Updater)
           /\ lastOp' = [op |-> "toggleVisibility", from |-> "card", target |-> <<id>>,
                         wasVisible |-> IsVisible(card)]
    /\ UNCHANGED <<activeChatId, inkVars, toolVars, selVars, panZoom, pending, now, toasts>>
    /\ Saved
    /\ listeners' = listeners

\* toggleVisualCardVisibility, called by the eye button of a generated
\* visual with the visual's id and by the eye button of a key concept with
\* the id of its card; target is the card the button stands for
toggleVisualCardVisibility(generatedVisualId) ==
    /\ HasActiveChat
    /\ LET visuals == activeChat.generatedVisuals
           cards == activeChat.visualCards
           found == {i \in DOMAIN visuals : visuals[i].id = generatedVisualId}
           visual == visuals[CHOOSE i \in found : \A j \in found : i <= j]
           onBoard == IF found = {} THEN {}
                      ELSE {i \in DOMAIN cards : cards[i].keyword = visual.keyword}
           cardOnBoard == cards[CHOOSE i \in onBoard : \A j \in onBoard : i <= j]
           Updater(c) == [c EXCEPT !.visualCards =
                             [i \in DOMAIN @ |->
                                 IF @[i].id = cardOnBoard.id
                                 THEN [@[i] EXCEPT !.visible =
                                          <<IF @ = <<>> THEN TRUE ELSE ~@[1]>>]
                                 ELSE @[i]]]
           target == IF generatedVisualId \in CardIds(cards) THEN <<generatedVisualId>>
                     ELSE IF onBoard # {} THEN <<cardOnBoard.id>>
                     ELSE <<>>
       IN  /\ chats' = IF onBoard # {} THEN UpdateChat(chats, activeChatId, Updater) ELSE chats
           /\ lastOp' = [op |-> "toggleVisibility", from |-> "sidebar", target |-> target,
                         wasVisible |-> IF target = <<>> THEN TRUE
                                        ELSE IsVisible(CardOf(cards, target[1]))]
    /\ UNCHANGED <<activeChatId, inkVars, toolVars, selVars, panZoom, pending, now, toasts>>
    /\ Saved
    /\ listeners' = listeners

----------------------------------------------------------------------------
(* A later start: the mount effect finds a saved entry.                    *)

\* the cards of the saved session: two AI visuals, the first with a size of
\* its own (VisualCard.width and VisualCard.height)
StoredCards ==
    <<[Card(<<"card", 0>>, "ai", "k1", "loaded", <<"u0">>, <<>>,
            RInt(0), RInt(0), <<RInt(300)>>, <<>>, <<>>) EXCEPT !.height = <<RInt(400)>>],
      Card(<<"card", 1>>, "ai", "k2", "loaded", <<"u0">>, <<>>,
           RInt(300), RInt(400), <<>>, <<>>, <<>>)>>

StoredEntry ==
    SaveState(<<[NewChatRecord(StartTime) EXCEPT !.contextText = "text",
                                                  !.visualCards = StoredCards]>>,
              StartTime)

ReloadTime == StartTime + 1

InitStored == Mounted(LoadChats(StoredEntry), StoredEntry[1].activeChatId, ReloadTime)

----------------------------------------------------------------------------
(* Ink specification: strokes, shapes, undo, redo, wipe and reload on one  *)
(* session.                                                                *)

MaxHistory == 3
MaxPath == 2
MaxPending == 1

InkTools == {"pen", "eraser"}
InkPointers == {<<256, 56>>}

HistoryLen == IF HasActiveChat THEN Len(activeChat.drawingHistory) ELSE 0

NextInk ==
    /\ \/ \E t \in InkTools : SetActiveTool(t)
       \/ \E p \in InkPointers : activeTool # "select" /\ ~isDrawing /\ onMouseDown(p[1], p[2])
       \/ \E p \in InkPointers : isDrawing /\ Len(ctx.path) < MaxPath /\ onMouseMove(p[1], p[2])
       \/ HistoryLen < MaxHistory /\ onMouseUp
       \/ Cardinality(pending) < MaxPending /\ handleUndo
       \/ \E r \in pending : undoImageLoaded(r)
       \/ onRedo
       \/ onWipe
       \/ onReload
    /\ Render
    /\ Observe

SpecInk == Init /\ [][NextInk]_vars

----------------------------------------------------------------------------
(* History-cap specification: pen strokes and undo only, every stroke      *)
(* moving the pointer, so that the history can grow to the cap.            *)

MaxDeepHistory == 22

NextCap ==
    /\ \/ SetActiveTool("pen")
       \/ \E p \in InkPointers : activeTool = "pen" /\ ~isDrawing /\ onMouseDown(p[1], p[2])
       \/ \E p \in InkPointers : isDrawing /\ Len(ctx.path) < MaxPath /\ onMouseMove(p[1], p[2])
       \/ isDrawing /\ Len(ctx.path) >= 2 /\ HistoryLen < MaxDeepHistory /\ onMouseUp
       \/ Cardinality(pending) < MaxPending /\ handleUndo
       \/ \E r \in pending : undoImageLoaded(r)
    /\ Render
    /\ Observe

SpecCap == Init /\ [][NextCap]_vars

----------------------------------------------------------------------------
(* Properties of the ink history.                                          *)

Min(a, b) == IF a <= b THEN a ELSE b

\* C1: a commit first discards every history entry after historyIndex, then
\* appends the new snapshot and sets historyIndex to the new last index.
C1_CommitTruncatesRedoBranch ==
    (lastOp.op = "mouseUp" /\ lastOp.did = "commit") =>
        LET kept == SubSeq(lastOp.prevHistory, 1,
                           Min(lastOp.prevIndex + 1, Len(lastOp.prevHistory)))
        IN  /\ activeChat.drawingHistory = Append(kept, ToDataURL(canvas))
            /\ activeChat.drawingHistoryIndex = Len(activeChat.drawingHistory) - 1

\* C2: undo followed by redo restores the ink canvas and historyIndex to what
\* they were before the undo, and redo increments historyIndex whenever
\* historyIndex < history.length - 1.
C2_UndoThenRedoRestores ==
    [][/\ (lastOp.op = "undoLoaded" /\ lastOp'.op = "redo") =>
              (canvas' = lastOp.prevCanvas /\ chats' = lastOp.prevChats)
       /\ (lastOp'.op = "redo" /\ HasActiveChat
              /\ activeChat.drawingHistoryIndex < Len(activeChat.drawingHistory) - 1) =>
              FindChat(chats', activeChatId).drawingHistoryIndex
                  = activeChat.drawingHistoryIndex + 1]_vars

\* C3: on a new session, after one stroke historyIndex = 0 and the history has
\* one entry, and n strokes followed by n undos leave the ink canvas empty.
C3_UndoAllStrokesGivesEmpty ==
    (script.clean /\ HasActiveChat) =>
        /\ (script.strokes = 1 /\ script.undos = 0) =>
              (activeChat.drawingHistoryIndex = 0 /\ Len(activeChat.drawingHistory) = 1)
        /\ (script.strokes >= 1 /\ script.undos = script.strokes /\ pending = {}) =>
              canvas = EmptyBitmap

\* C4: the ink history of every session has at most 20 entries.
C4_HistoryAtMostCap ==
    \A i \in DOMAIN chats : Len(chats[i].drawingHistory) <= HistoryCap

\* C5: every session with a non-empty ink history has
\* 0 <= historyIndex < history.length.
C5_IndexInRange ==
    \A i \in DOMAIN chats :
        Len(chats[i].drawingHistory) > 0 =>
            (0 <= chats[i].drawingHistoryIndex
               /\ chats[i].drawingHistoryIndex < Len(chats[i].drawingHistory))

----------------------------------------------------------------------------
(* Placement specification: uploads, generated visuals and sidebar clicks. *)

MaxCards == 2
MaxVisuals == 2
MaxNow == 2

KeywordLists == {<<"k1">>, <<"k1", "k2">>}
Urls == {"u1"}

CardCount == IF HasActiveChat THEN Len(activeChat.visualCards) ELSE 0
VisualCount == IF HasActiveChat THEN Len(activeChat.generatedVisuals) ELSE 0
ActiveCardIds == IF HasActiveChat THEN CardIds(activeChat.visualCards) ELSE {}
ActiveVisuals ==
    IF HasActiveChat
    THEN {activeChat.generatedVisuals[i] : i \in DOMAIN activeChat.generatedVisuals}
    ELSE {}

\* the clock value already names a session, a card or a generated visual
NowUsed ==
    \E i \in DOMAIN chats :
        \/ chats[i].id = now
        \/ \E j \in DOMAIN chats[i].visualCards : chats[i].visualCards[j].id[2] = now
        \/ \E j \in DOMAIN chats[i].generatedVisuals : chats[i].generatedVisuals[j].id[2] = now

NextPlace ==
    /\ \/ \E ft \in {"image", "text"} :
             pending = {} /\ CardCount < MaxCards /\ handleFileUpload(ft)
       \/ \E r \in pending : fileUploadRead(r)
       \/ pending = {} /\ VisualCount = 0 /\ handleGenerateVisuals
       \/ \E r \in pending : \E kws \in KeywordLists :
             VisualCount + Len(kws) <= MaxVisuals /\ keywordsExtracted(r, kws)
       \/ \E r \in pending : keywordsFailed(r)
       \/ \E r \in pending : \E ok \in BOOLEAN : \E url \in Urls : visualSettled(r, ok, url)
       \/ \E item \in ActiveVisuals :
             pending = {} /\ CardCount < MaxCards
             /\ handleSidebarVisualClick(item)
       \/ \E r \in pending : panLaterFired(r)
       \/ \E id \in ActiveCardIds : onDelete(id)
       \/ now < MaxNow /\ NowUsed /\ Tick
    /\ Render
    /\ Observe

SpecPlace == Init /\ [][NextPlace]_vars

\* the box a card occupies: width and height default to 300 x 200
CardBox(c) ==
    [left |-> c.position.left, top |-> c.position.top,
     right |-> RAdd(c.position.left, CardWidthOr(c, DefaultCardWidth)),
     bottom |-> RAdd(c.position.top,
                     IF c.height = <<>> THEN RInt(DefaultCardHeight) ELSE c.height[1])]

\* AABB overlap: the boxes overlap on both axes
BoxesOverlap(a, b) ==
    /\ RLt(a.left, b.right) /\ RLt(b.left, a.right)
    /\ RLt(a.top, b.bottom) /\ RLt(b.top, a.bottom)

\* C6: the box of a card placed by findNextLogicalCardPosition overlaps the
\* box of no existing card (the planner's grid has no last row, so it is
\* never exhausted; boxes are compared without padding, which padding could
\* only enlarge).
C6_PlacedCardOverlapsNone ==
    (lastOp.op = "sidebarVisualClick" /\ lastOp.did = "newCard") =>
        \A i \in DOMAIN lastOp.before :
            ~BoxesOverlap(CardBox(lastOp.card), CardBox(lastOp.before[i]))

----------------------------------------------------------------------------
(* Lasso specification: a saved session, lassos around its cards.          *)

MaxLasso == 3

\* client pixels over the scene points (0,0), (150,100) and (150,200)
LassoPointers == {<<256, 56>>, <<406, 156>>, <<406, 256>>}

NextLasso ==
    /\ \/ SetActiveTool("ai-lasso")
       \/ \E p \in LassoPointers :
             activeTool = "ai-lasso" /\ ~isDrawing /\ onMouseDown(p[1], p[2])
       \/ \E p \in LassoPointers :
             isDrawing /\ Len(lassoPath) < MaxLasso /\ onMouseMove(p[1], p[2])
       \/ isDrawing /\ onMouseUp
       \/ \E id \in ActiveCardIds : onDelete(id)
    /\ Render
    /\ Observe

SpecLasso == InitStored /\ [][NextLasso]_vars

\* the centre of a card's box: (left + width / 2, top + height / 2)
BoxCentre(c) ==
    LET b == CardBox(c)
    IN  [x |-> RDiv(RAdd(b.left, b.right), RInt(2)),
         y |-> RDiv(RAdd(b.top, b.bottom), RInt(2))]

----------------------------------------------------------------------------
(* Request specification: regeneration requests against deletions and      *)
(* session changes.                                                        *)

MaxInFlight == 2
MaxChats == 2
RegenUrls == {"u1", "u2"}

ActiveAiCardIds ==
    IF HasActiveChat
    THEN {activeChat.visualCards[i].id :
             i \in {j \in DOMAIN activeChat.visualCards : activeChat.visualCards[j].type = "ai"}}
    ELSE {}

NextAsync ==
    /\ \/ \E id \in ActiveAiCardIds :
             Cardinality(pending) < MaxInFlight /\ handleRegenerateVisual(id)
       \/ \E r \in pending : \E ok \in BOOLEAN : \E url \in RegenUrls :
             regenerateSettled(r, ok, url)
       \/ \E id \in ActiveCardIds : onDelete(id)
       \/ Len(chats) < MaxChats /\ ~HasChat(chats, now) /\ handleNewChat
       \/ \E i \in DOMAIN chats : chats[i].id # activeChatId /\ onSelectChat(chats[i].id)
       \/ \E i \in DOMAIN chats : onDeleteChat(chats[i].id)
       \/ now < StartTime + MaxNow /\ Tick
    /\ Render
    /\ Observe

SpecAsync == InitStored /\ [][NextAsync]_vars

\* C8: when a regeneration request settles, resolved or rejected, after its
\* card was deleted, the card lists are left as they were: no card has the
\* id afterwards and no other card is modified.
C8_LateResultIsNoOp ==
    [][(lastOp'.op = "regenerateSettled" /\ ~lastOp'.cardPresent) =>
           /\ chats' = chats
           /\ \A i \in DOMAIN chats' :
                 chats'[i].id = lastOp'.chatId =>
                     lastOp'.cardId \notin CardIds(chats'[i].visualCards)]_vars

\* a request settled after its card was deleted
C8_Witness == lastOp.op = "regenerateSettled" /\ ~lastOp.cardPresent

\* C39: activeChatId is null or the id of an existing session.
C39_ActiveChatExists == activeChatId = NoChat \/ HasChat(chats, activeChatId)

\* C34: when requests to regenerate the same card race, the card ends with
\* what the request that settles last writes, whatever the order of issue:
\* every settled request sets the status (loaded or error), and a resolved
\* one the image, over what an earlier settled request wrote.
C34_LastSettledWins ==
    [][(lastOp'.op = "regenerateSettled" /\ lastOp'.cardPresent) =>
          LET before == CardOf(FindChat(chats, lastOp'.chatId).visualCards, lastOp'.cardId)
              after == CardOf(FindChat(chats', lastOp'.chatId).visualCards, lastOp'.cardId)
          IN  /\ after.status = IF lastOp'.ok THEN "loaded" ELSE "error"
              /\ after.imageUrl = IF lastOp'.ok THEN lastOp'.url ELSE before.imageUrl]_vars

\* the last of two racing requests was rejected after the other had
\* resolved, and the card shows the error
C34_Witness ==
    /\ lastOp.op = "regenerateSettled" /\ lastOp.cardPresent /\ ~lastOp.ok
    /\ lastOp.prevStatus = "loaded"
    /\ pending = {}
    /\ StatusOf(chats, lastOp.chatId, lastOp.cardId) = "error"

----------------------------------------------------------------------------
(* View specification: wheel zoom, wheel pan and drag pan.                 *)

MaxPan == 14
ZoomPointers == {<<256, 56>>, <<263, 63>>, <<556, 256>>}
WheelZoomDeltas == {-500, 500}
WheelPanDeltas == {-7, 7}

PanWithin(dx, dy) ==
    LET x == RAdd(panZoom.panX, RInt(dx))
        y == RAdd(panZoom.panY, RInt(dy))
    IN  /\ RLe(RInt(-MaxPan), x) /\ RLe(x, RInt(MaxPan))
        /\ RLe(RInt(-MaxPan), y) /\ RLe(y, RInt(MaxPan))

NextZoom ==
    /\ \/ \E p \in ZoomPointers : \E dy \in WheelZoomDeltas : onWheel(TRUE, 0, dy, p[1], p[2])
       \/ \E p \in ZoomPointers : \E dx \in WheelPanDeltas : \E dy \in WheelPanDeltas :
             PanWithin(-dx, -dy) /\ onWheel(FALSE, dx, dy, p[1], p[2])
       \/ \E p \in ZoomPointers : ~panZoom.isPanning /\ onMouseDown(p[1], p[2])
       \/ \E p \in ZoomPointers :
             /\ panZoom.isPanning
             /\ PanWithin(p[1] - panZoom.startPanX, p[2] - panZoom.startPanY)
             /\ onMouseMove(p[1], p[2])
       \/ panZoom.isPanning /\ onMouseUp
    /\ Render
    /\ Observe

SpecZoom == Init /\ [][NextZoom]_vars

\* C9: a zoom keeps the scene point under the pointer where it was: the
\* point under the anchor pixel before the zoom is under it afterwards.
C9_ZoomKeepsAnchor ==
    (lastOp.op = "wheel" /\ lastOp.zoom) =>
        ToScene(panZoom, lastOp.cx, lastOp.cy) = ToScene(lastOp.before, lastOp.cx, lastOp.cy)

----------------------------------------------------------------------------
(* Card specification: an uploaded image, clicks on cards, AI actions on   *)
(* the selection, deletions.                                               *)

MaxLeft == 100
MaxSelected == 2
MaxToasts == 1
CardPointers == {<<456, 256>>}

\* every card of the active session starts at or left of x
CardsLeftOf(x) ==
    HasActiveChat =>
        \A i \in DOMAIN activeChat.visualCards :
            RLe(activeChat.visualCards[i].position.left, RInt(x))

NextCards ==
    /\ \/ pending = {} /\ CardCount = 0 /\ handleFileUpload("image")
       \/ \E r \in pending : fileUploadRead(r)
       \/ \E id \in ActiveCardIds : \E multi \in BOOLEAN : \E p \in CardPointers :
             /\ activeTool = "select" /\ ~panZoom.isPanning /\ listeners = <<>>
             /\ multi => Len(selectedCardIds) < MaxSelected
             /\ cardMouseDown(id, multi, p[1], p[2])
       \/ panZoom.isPanning /\ onMouseUp
       \/ lastOp.op = "mouseUp" /\ cardMouseUp
       \/ /\ Cardinality(pending) < MaxInFlight /\ CardCount < MaxCards /\ CardsLeftOf(MaxLeft)
          /\ handleAiMenuAction("explain")
       \/ \E r \in pending : \E ok \in BOOLEAN :
             (ok \/ Len(toasts) < MaxToasts) /\ aiActionSettled(r, ok, "answer")
       \/ \E id \in ActiveCardIds : onDelete(id)
       \/ \E t \in {"select", "ai-lasso"} : t # activeTool /\ SetActiveTool(t)
       \/ now < MaxNow /\ NowUsed /\ Tick
    /\ Click
    /\ Render
    /\ Observe

SpecCards == Init /\ [][NextCards]_vars

\* C11: no two cards of a session share an id, whichever path created them
\* and however close in time.
C11_CardIdsUnique ==
    \A i \in DOMAIN chats :
        \A j, k \in DOMAIN chats[i].visualCards :
            j # k => chats[i].visualCards[j].id # chats[i].visualCards[k].id

\* C12: after a card was deleted its id is neither in the session's card
\* list nor in selectedCardIds.
C12_DeletedCardGone ==
    (lastOp.op = "deleteCard" /\ HasActiveChat) =>
        /\ lastOp.cardId \notin CardIds(activeChat.visualCards)
        /\ \A i \in DOMAIN selectedCardIds : selectedCardIds[i] # lastOp.cardId

\* C13: right after a tool change, and right after an action was dispatched
\* from the AI menu, nothing is selected: selectedCardIds is empty and the
\* lasso bounds are null.
C13_SelectionClearedOnToolOrDispatch ==
    (lastOp.op \in {"setActiveTool", "aiMenu"}) =>
        selectedCardIds = <<>> /\ selectionBounds = <<>>

----------------------------------------------------------------------------
(* Session specification: a saved session, pen strokes, card clicks, new   *)
(* sessions and switches between sessions.                                 *)

NextSwitch ==
    /\ \/ \E t \in {"select", "pen"} : t # activeTool /\ ~isDrawing /\ SetActiveTool(t)
       \/ \E id \in ActiveCardIds : \E p \in CardPointers :
             /\ activeTool = "select" /\ ~panZoom.isPanning /\ listeners = <<>>
             /\ cardMouseDown(id, FALSE, p[1], p[2])
       \/ \E p \in InkPointers :
             activeTool = "pen" /\ ~isDrawing /\ HistoryLen < MaxHistory /\ onMouseDown(p[1], p[2])
       \/ \E p \in InkPointers : isDrawing /\ Len(ctx.path) < MaxPath /\ onMouseMove(p[1], p[2])
       \/ (isDrawing \/ panZoom.isPanning) /\ onMouseUp
       \/ lastOp.op = "mouseUp" /\ cardMouseUp
       \/ Len(chats) < MaxChats /\ ~HasChat(chats, now) /\ ~isDrawing /\ handleNewChat
       \/ \E i \in DOMAIN chats :
             chats[i].id # activeChatId /\ ~isDrawing /\ onSelectChat(chats[i].id)
       \/ now < StartTime + MaxNow /\ Tick
    /\ Click
    /\ Render
    /\ Observe

SpecSwitch == InitStored /\ [][NextSwitch]_vars

\* the ink a session's history records as current
SessionInk(c) ==
    IF c.drawingHistoryIndex < 0 \/ c.drawingHistoryIndex >= Len(c.drawingHistory)
    THEN EmptyBitmap
    ELSE DecodeImage(c.drawingHistory[c.drawingHistoryIndex + 1])

\* C14: right after the active session changed, the selection holds nothing
\* of the previous session (every selected id is a card of the active
\* session, no lasso bounds are left) and the ink canvas shows the ink of
\* the active session.
C14_SwitchSwapsAll ==
    (lastOp.op \in {"selectChat", "newChat"} /\ HasActiveChat) =>
        /\ \A i \in DOMAIN selectedCardIds :
               selectedCardIds[i] \in CardIds(activeChat.visualCards)
        /\ selectionBounds = <<>>
        /\ canvas = SessionInk(activeChat)

\* an undo whose snapshot image has not loaded yet
UndoLoading == \E r \in pending : r.kind = "undoLoad"

\* C37: whenever no gesture and no load of an undo image is in progress, the
\* ink canvas shows the snapshot at the history index of the active session,
\* and nothing when that session has no history.
C37_CanvasShowsCurrentSnapshot ==
    (~isDrawing /\ ~UndoLoading /\ HasActiveChat) => canvas = SessionInk(activeChat)

\* C15: when a regeneration request rejects, the card it was for, if it
\* still exists, goes to status error, no other card changes, and a toast
\* is added.
C15_RejectionMarksErrorAndToasts ==
    [][(lastOp'.op = "regenerateSettled" /\ ~lastOp'.ok) =>
           /\ \A i \in DOMAIN chats :
                 /\ Len(chats'[i].visualCards) = Len(chats[i].visualCards)
                 /\ \A j \in DOMAIN chats[i].visualCards :
                       chats'[i].visualCards[j] =
                           IF chats[i].id = lastOp'.chatId
                              /\ chats[i].visualCards[j].id = lastOp'.cardId
                           THEN [chats[i].visualCards[j] EXCEPT !.status = "error"]
                           ELSE chats[i].visualCards[j]
           /\ Len(chats') = Len(chats)
           /\ toasts' # toasts
           /\ toasts' # <<>> /\ toasts'[Len(toasts')].type = "error"]_vars

----------------------------------------------------------------------------
(* Conversion specification: pen strokes, lassos and handwriting           *)
(* conversion.                                                             *)

MaxInk == 1

\* client pixels over the scene points (0,0) and (150,100)
ConvertPointers == {<<256, 56>>, <<406, 156>>}

NextConvert ==
    /\ \/ \E t \in {"pen", "ai-lasso"} : t # activeTool /\ ~isDrawing /\ SetActiveTool(t)
       \/ \E p \in InkPointers :
             activeTool = "pen" /\ ~isDrawing /\ HistoryLen < MaxInk /\ onMouseDown(p[1], p[2])
       \/ \E p \in ConvertPointers : activeTool = "ai-lasso" /\ ~isDrawing /\ onMouseDown(p[1], p[2])
       \/ \E p \in InkPointers :
             activeTool = "pen" /\ isDrawing /\ Len(ctx.path) < MaxPath /\ onMouseMove(p[1], p[2])
       \/ \E p \in ConvertPointers :
             activeTool = "ai-lasso" /\ isDrawing /\ Len(lassoPath) < MaxLasso
             /\ onMouseMove(p[1], p[2])
       \/ isDrawing /\ onMouseUp
       \/ /\ selectionBounds # <<>> /\ pending = {} /\ CardCount < MaxCards
          /\ Len(toasts) < MaxToasts /\ HistoryLen <= MaxInk
          /\ handleAiMenuAction("convert-text")
       \/ \E r \in pending : \E ok \in BOOLEAN : recognizeSettled(r, ok, "note")
    /\ Render
    /\ Observe

SpecConvert == Init /\ [][NextConvert]_vars

\* C16: when handwriting recognition rejects, the conversion changes no
\* session (cards, ink history and historyIndex stay as they were) nor the
\* ink canvas, and reports the failure in an error toast.
C16_RejectedConversionChangesNothing ==
    [][(lastOp'.op = "convertFailed") =>
           /\ chats' = chats
           /\ canvas' = canvas
           /\ toasts' # <<>>
           /\ toasts'[Len(toasts')] = [message |-> "Failed to convert handwriting.",
                                       type |-> "error"]]_vars

\* a recognition request was rejected while the session had ink
C16_Witness ==
    /\ lastOp.op = "convertFailed"
    /\ HasActiveChat /\ activeChat.drawingHistory # <<>>

----------------------------------------------------------------------------
(* Planner specification: generated visuals are clicked onto the board,    *)
(* deleted and clicked again.                                              *)

NextPlan ==
    /\ \/ pending = {} /\ HasActiveChat /\ activeChat.contextText = "" /\ handleFileUpload("text")
       \/ \E r \in pending : fileUploadRead(r)
       \/ pending = {} /\ VisualCount = 0 /\ handleGenerateVisuals
       \/ \E r \in pending : keywordsExtracted(r, <<"k1", "k2">>)
       \/ \E r \in pending : \E url \in Urls : visualSettled(r, TRUE, url)
       \/ \E item \in ActiveVisuals :
             pending = {} /\ CardCount < MaxCards /\ handleSidebarVisualClick(item)
       \/ \E r \in pending : panLaterFired(r)
       \/ \E id \in ActiveCardIds : onDelete(id)
       \/ now < MaxNow /\ NowUsed /\ Tick
    /\ Render
    /\ ObservePlanner

SpecPlan == Init /\ [][NextPlan]_vars

C18_ScaleWithinRange ==
    /\ RLe(Rat(1, 10), panZoom.scale)
    /\ RLe(panZoom.scale, RInt(5))

\* a wheel zoom asked for a factor outside the range and was clamped
C18_Witness ==
    /\ lastOp.op = "wheel" /\ lastOp.zoom
    /\ \E dy \in WheelZoomDeltas :
          LET asked == RSub(lastOp.before.scale, RMul(RInt(dy), Rat(1, 1000)))
          IN  /\ ~(RLe(Rat(1, 10), asked) /\ RLe(asked, RInt(5)))
              /\ panZoom.scale \in {Rat(1, 10), RInt(5)}
              /\ panZoom.scale = RMin(RMax(Rat(1, 10), asked), RInt(5))

----------------------------------------------------------------------------
(* Ownership specification: AI requests on a saved session that settle     *)
(* before or after the user went to another session.                       *)

MaxOwned == 3

NextOwner ==
    /\ \/ \E id \in ActiveCardIds : \E p \in CardPointers :
             /\ activeTool = "select" /\ ~panZoom.isPanning /\ selectedCardIds = <<>>
             /\ listeners = <<>>
             /\ cardMouseDown(id, FALSE, p[1], p[2])
       \/ panZoom.isPanning /\ onMouseUp
       \/ lastOp.op = "mouseUp" /\ cardMouseUp
       \/ /\ pending = {} /\ HasActiveChat /\ Len(activeChat.visualCards) < MaxOwned
          /\ Len(toasts) < MaxToasts
          /\ handleAiMenuAction("explain")
       \/ \E r \in pending : \E ok \in BOOLEAN :
             (ok \/ Len(toasts) < MaxToasts) /\ aiActionSettled(r, ok, "answer")
       \/ \E id \in ActiveAiCardIds : pending = {} /\ handleRegenerateVisual(id)
       \/ \E r \in pending : \E ok \in BOOLEAN : \E url \in RegenUrls :
             regenerateSettled(r, ok, url)
       \/ Len(chats) < MaxChats /\ ~HasChat(chats, now) /\ handleNewChat
       \/ \E i \in DOMAIN chats : chats[i].id # activeChatId /\ onSelectChat(chats[i].id)
       \/ now < StartTime + MaxNow /\ Tick
    /\ Click
    /\ Render
    /\ Observe

SpecOwner == InitStored /\ [][NextOwner]_vars

CardIdSeq(cards) == [i \in DOMAIN cards |-> cards[i].id]
IsPrefix(s, t) == Len(s) <= Len(t) /\ SubSeq(t, 1, Len(s)) = s

----------------------------------------------------------------------------
(* Quick-undo specification: pen strokes and undos, with a second undo     *)
(* invoked while the snapshot of the first is still loading.               *)

MaxQuick == 2

UndoLoads == {r \in pending : r.kind = "undoLoad" /\ r.chatId = activeChatId}

NextUndo ==
    /\ \/ activeTool # "pen" /\ SetActiveTool("pen")
       \/ \E p \in InkPointers : activeTool = "pen" /\ ~isDrawing /\ onMouseDown(p[1], p[2])
       \/ \E p \in InkPointers : isDrawing /\ Len(ctx.path) < MaxPath /\ onMouseMove(p[1], p[2])
       \/ isDrawing /\ HistoryLen < MaxHistory /\ onMouseUp
       \/ ~isDrawing /\ Cardinality(pending) < MaxQuick /\ handleUndo
       \/ \E r \in pending : undoImageLoaded(r)
    /\ Render
    /\ Observe

SpecUndo == Init /\ [][NextUndo]_vars

\* C20: every undo invoked while the history index is above 0 takes the
\* index down by exactly one - an undo invoked while the snapshots of k
\* earlier undos are still loading targets index - 1 - k - and the loaded
\* snapshot becomes the ink, history[new index]; an undo invoked with the
\* index at 0 or below, or with an empty history, changes nothing.
C20_EveryUndoDecrementsByOne ==
    [][/\ (lastOp'.op = "undo" /\ HasActiveChat
           /\ activeChat.drawingHistoryIndex - Cardinality(UndoLoads) > 0) =>
              \E r \in pending' \ pending :
                  /\ r.kind = "undoLoad"
                  /\ r.newIndex = activeChat.drawingHistoryIndex - 1 - Cardinality(UndoLoads)
       /\ (lastOp'.op = "undoLoaded" /\ HasActiveChat /\ lastOp'.chatId = activeChatId) =>
              /\ activeChat'.drawingHistoryIndex = lastOp'.newIndex
              /\ ToDataURL(canvas') = activeChat'.drawingHistory[lastOp'.newIndex + 1]
       /\ (lastOp'.op = "undo" /\ (~HasActiveChat \/ activeChat.drawingHistoryIndex <= 0)) =>
              (chats' = chats /\ canvas' = canvas /\ pending' = pending)]_vars

----------------------------------------------------------------------------
(* Gesture specification: every tool of the tool bar but the lasso, with   *)
(* clicks and drags on the empty board.                                    *)

MaxGestures == 2

GestureTools == Tools \ {"ai-lasso"}
GesturePointers == {<<276, 76>>, <<306, 96>>}

NextGesture ==
    /\ \/ \E t \in GestureTools : t # activeTool /\ ~isDrawing /\ ~panZoom.isPanning /\ SetActiveTool(t)
       \/ \E p \in GesturePointers :
             /\ activeTool # "select" /\ ~isDrawing /\ HistoryLen < MaxGestures
             /\ lastOp.op # "mouseDown"
             /\ onMouseDown(p[1], p[2])
       \/ \E p \in GesturePointers :
             /\ IF isDrawing THEN Len(ctx.path) < MaxPath /\ lastOp.op = "mouseDown"
                ELSE lastOp.op = "mouseDown"
             /\ onMouseMove(p[1], p[2])
       \/ lastOp.op # "mouseUp" /\ onMouseUp
    /\ Render
    /\ ObserveGesture

SpecGesture == Init /\ [][NextGesture]_vars

\* C21: a completed pen, highlighter, eraser or shape gesture appends exactly
\* one snapshot, that of the ink canvas, to the history of the active session
\* and leaves the history index at the last entry; a pointer-up with no
\* gesture in progress appends nothing.
C21_GestureAppendsOneSnapshot ==
    [][/\ (/\ lastOp'.op = "mouseUp" /\ isDrawing /\ HasActiveChat
           /\ activeTool \in StrokeTools \cup ShapeTools) =>
              LET h == activeChat.drawingHistory
                  kept == IF Len(h) > HistoryCap THEN Tail(h) ELSE h
              IN  /\ activeChat'.drawingHistory = Append(kept, ToDataURL(canvas'))
                  /\ activeChat'.drawingHistoryIndex = Len(activeChat'.drawingHistory) - 1
       /\ (lastOp'.op = "mouseUp" /\ ~isDrawing) => chats' = chats]_vars

\* a shape was committed onto a history that already held a snapshot
C21_Witness ==
    /\ lastOp.op = "mouseUp" /\ lastOp.did = "commit"
    /\ activeTool \in ShapeTools
    /\ Len(lastOp.prevHistory) >= 1
    /\ Len(activeChat.drawingHistory) = Len(lastOp.prevHistory) + 1
    /\ canvas # EmptyBitmap

----------------------------------------------------------------------------
(* Undo-scope specification: a saved session with cards, pen strokes, card *)
(* deletions and undos.                                                    *)

NextRevert ==
    /\ \/ activeTool # "pen" /\ SetActiveTool("pen")
       \/ \E p \in InkPointers :
             /\ activeTool = "pen" /\ ~isDrawing /\ HistoryLen < MaxGestures
             /\ onMouseDown(p[1], p[2])
       \/ \E p \in InkPointers : isDrawing /\ Len(ctx.path) < MaxPath /\ onMouseMove(p[1], p[2])
       \/ isDrawing /\ onMouseUp
       \/ \E id \in ActiveCardIds : ~isDrawing /\ onDelete(id)
       \/ ~isDrawing /\ Cardinality(pending) < MaxPending /\ handleUndo
       \/ \E r \in pending : undoImageLoaded(r)
    /\ Render
    /\ Observe

SpecRevert == InitStored /\ [][NextRevert]_vars

\* a session but for its history index
WithoutIndex(c) == [c EXCEPT !.drawingHistoryIndex = 0]

\* C22: an undo - its invocation and the load of its snapshot - changes only
\* the history index and the ink bitmap: the history entries and the card
\* list of every session stay as they are, so that a deleted or moved card
\* is not brought back.
C22_UndoTouchesOnlyIndexAndInk ==
    [][lastOp'.op \in {"undo", "undoLoaded"} =>
          /\ DOMAIN chats' = DOMAIN chats
          /\ \A i \in DOMAIN chats : WithoutIndex(chats'[i]) = WithoutIndex(chats[i])
          /\ UNCHANGED <<activeChatId, previewCanvas, toolVars, selVars, panZoom, toasts,
                         listeners>>]_vars

\* the snapshot of an undo was loaded, changing the ink, in a session that
\* had lost a card
C22_Witness ==
    /\ lastOp.op = "undoLoaded"
    /\ canvas # lastOp.prevCanvas
    /\ HasActiveChat
    /\ activeChat.drawingHistoryIndex < Len(activeChat.drawingHistory) - 1
    /\ Len(activeChat.visualCards) < Len(StoredCards)

\* C36: deleting a card leaves the ink as it is - the ink canvas, and the
\* history and history index of every session - and takes exactly the
\* deleted card out of the list: every other card stays, as it was and in
\* its place.
C36_DeleteLeavesInkAndOthers ==
    [][lastOp'.op = "deleteCard" =>
          /\ canvas' = canvas
          /\ DOMAIN chats' = DOMAIN chats
          /\ \A i \in DOMAIN chats :
                /\ chats'[i].drawingHistory = chats[i].drawingHistory
                /\ chats'[i].drawingHistoryIndex = chats[i].drawingHistoryIndex
                /\ LET cards == chats[i].visualCards
                   IN  IF chats[i].id = activeChatId
                       THEN \E k \in DOMAIN cards :
                               /\ cards[k].id = lastOp'.cardId
                               /\ chats'[i].visualCards =
                                      SubSeq(cards, 1, k - 1) \o SubSeq(cards, k + 1, Len(cards))
                       ELSE chats'[i].visualCards = cards]_vars

\* C23: a successful handwriting conversion appends exactly one snapshot,
\* taken after the lasso rectangle was cleared, to the history the session
\* has at that moment and sets the history index to it; the entry below it
\* is the ink as it was before the clearing, so that one undo restores it.
C23_ConversionAppendsOneSnapshot ==
    [][(lastOp'.op = "convertText" /\ HasChat(chats, lastOp'.chatId)) =>
          LET h == FindChat(chats, lastOp'.chatId).drawingHistory
              kept == IF Len(h) > HistoryCap THEN Tail(h) ELSE h
              after == FindChat(chats', lastOp'.chatId)
          IN  /\ after.drawingHistory = Append(kept, ToDataURL(canvas'))
              /\ after.drawingHistoryIndex = Len(after.drawingHistory) - 1
              /\ Len(h) >= 1 =>
                    DecodeImage(after.drawingHistory[after.drawingHistoryIndex]) = canvas]_vars

\* C38: the history write of a successful conversion keeps the snapshots the
\* session has at that moment, those committed while recognition was pending
\* included: the history after the conversion begins with the history before
\* it (but for the oldest entry when the cap drops it).
C38_ConversionKeepsLaterSnapshots ==
    [][(lastOp'.op = "convertText" /\ HasChat(chats, lastOp'.chatId)) =>
          LET h == FindChat(chats, lastOp'.chatId).drawingHistory
              after == FindChat(chats', lastOp'.chatId).drawingHistory
          IN  \/ IsPrefix(h, after)
              \/ Len(h) >= HistoryCap /\ IsPrefix(Tail(h), after)]_vars

\* C24: a successful handwriting conversion adds exactly one card: a text card
\* with a transparent background whose top-left corner is (minX, minY) of the
\* lasso box and whose width and height are those of the box.
C24_ConvertedCardFitsLassoBox ==
    [][(lastOp'.op = "convertText" /\ HasChat(chats, lastOp'.chatId)) =>
          LET before == FindChat(chats, lastOp'.chatId).visualCards
              after == FindChat(chats', lastOp'.chatId).visualCards
              box == lastOp'.bounds
              card == after[Len(after)]
          IN  /\ Len(after) = Len(before) + 1
              /\ SubSeq(after, 1, Len(before)) = before
              /\ card.type = "text" /\ card.backgroundColor = <<"transparent">>
              /\ card.position = [top |-> box.minY, left |-> box.minX]
              /\ card.width = <<RSub(box.maxX, box.minX)>>
              /\ card.height = <<RSub(box.maxY, box.minY)>>]_vars

\* the last card of the active session
LastCard == activeChat.visualCards[Len(activeChat.visualCards)]

\* C25: with the text tool, a click on the board (pointer-down and pointer-up
\* with no movement in between) adds one text card with a transparent
\* background, in edit mode, at the scene point of the click.
C25_TextClickAddsCard ==
    [][(/\ activeTool = "text" /\ HasActiveChat
        /\ lastOp.op = "mouseDown" /\ lastOp.did = "nothing"
        /\ lastOp'.op = "mouseUp") =>
          LET pt == ToScene(panZoom, lastOp.cx, lastOp.cy)
          IN  /\ Len(activeChat'.visualCards) = Len(activeChat.visualCards) + 1
              /\ LastCard'.type = "text"
              /\ LastCard'.backgroundColor = <<"transparent">>
              /\ LastCard'.newlyCreated
              /\ LastCard'.position = [top |-> pt.y, left |-> pt.x]]_vars

RAbs(a) == IF a.n < 0 THEN [n |-> -a.n, d |-> a.d] ELSE a

\* C26: with the sticky-note tool, a drag whose rectangle is larger than the
\* minimum (10 scene units) in both dimensions adds one note card with a background, at the
\* rectangle's position and with its size, and the tool becomes select; a
\* smaller rectangle adds no card.
C26_NoteDragAddsCard ==
    [][(/\ activeTool = "notepad" /\ HasActiveChat /\ script.down # <<>>
        /\ lastOp.op = "mouseMove" /\ lastOp.did = "nothing"
        /\ lastOp'.op = "mouseUp") =>
          LET a == ToScene(panZoom, script.down[1].cx, script.down[1].cy)
              b == ToScene(panZoom, lastOp.cx, lastOp.cy)
              w == RAbs(RSub(b.x, a.x))
              h == RAbs(RSub(b.y, a.y))
          IN  IF RLt(RInt(10), w) /\ RLt(RInt(10), h)
              THEN /\ Len(activeChat'.visualCards) = Len(activeChat.visualCards) + 1
                   /\ LastCard'.position = [top |-> RMin(a.y, b.y), left |-> RMin(a.x, b.x)]
                   /\ LastCard'.width = <<w>> /\ LastCard'.height = <<h>>
                   /\ LastCard'.backgroundColor \notin {<<>>, <<"transparent">>}
                   /\ activeTool' = "select"
              ELSE activeChat'.visualCards = activeChat.visualCards]_vars

\* C30: a shape gesture without movement (pointer-down, then pointer-up) is
\* discarded: the ink canvas, the history and the cards stay as they were.
C30_EmptyShapeDiscarded ==
    [][(/\ activeTool \in ShapeTools /\ isDrawing
        /\ lastOp.op = "mouseDown"
        /\ lastOp'.op = "mouseUp") =>
          (canvas' = canvas /\ chats' = chats)]_vars

----------------------------------------------------------------------------
(* Card-pointer specification: presses on the cards of a saved session with *)
(* the select tool and the pen, drags, releases and one zoom step.          *)

MaxListeners == 2

DragPointers == {<<466, 276>>}
DragZoomDeltas == {-1000}

\* no card has been moved yet
Undragged ==
    \A i \in DOMAIN activeChat.visualCards :
        activeChat.visualCards[i].position = StoredCards[i].position

NextDrag ==
    /\ \/ \E t \in {"select", "pen"} :
             t # activeTool /\ ~isDrawing /\ ~panZoom.isPanning /\ SetActiveTool(t)
       \/ \E p \in CardPointers : \E dy \in DragZoomDeltas :
             panZoom.scale = RInt(1) /\ listeners = <<>> /\ onWheel(TRUE, 0, dy, p[1], p[2])
       \/ \E id \in ActiveCardIds : \E multi \in BOOLEAN : \E p \in CardPointers :
             /\ Len(listeners) < MaxListeners /\ Undragged
             /\ activeTool = "pen" => HistoryLen < MaxInk
             /\ cardMouseDown(id, multi, p[1], p[2])
       \/ \E p \in DragPointers : Undragged /\ cardMouseMove(p[1], p[2])
       \/ (isDrawing \/ panZoom.isPanning) /\ onMouseUp
       \/ ~isDrawing /\ ~panZoom.isPanning /\ cardMouseUp
    /\ Render
    /\ Observe

SpecDrag == InitStored /\ [][NextDrag]_vars

\* C27: at most one pointer gesture is active at a time: a card drag, a pan
\* of the board and a drawing or lasso gesture exclude each other.
C27_OneGestureAtATime ==
    /\ ~(listeners # <<>> /\ panZoom.isPanning)
    /\ ~(listeners # <<>> /\ isDrawing)
    /\ ~(panZoom.isPanning /\ isDrawing)

NoRepeat(seq) == \A i, j \in DOMAIN seq : i # j => seq[i] # seq[j]
Without(seq, x) == SelectSeq(seq, LAMBDA y : y # x)

C29_DragFollowsPointer ==
    [][lastOp'.op = "cardMouseMove" =>
          \A i \in DOMAIN activeChat.visualCards :
              LET card == activeChat.visualCards[i]
                  moved == activeChat'.visualCards[i]
                  mine == {k \in DOMAIN listeners : listeners[k].cardId = card.id}
              IN  IF mine = {}
                  THEN moved = card
                  ELSE LET start == listeners[CHOOSE k \in mine : TRUE].dragStartPos
                           dx == RDiv(RInt(lastOp'.cx - start.x), panZoom.scale)
                           dy == RDiv(RInt(lastOp'.cy - start.y), panZoom.scale)
                       IN  moved = [card EXCEPT !.position =
                                       [top |-> RAdd(start.top, dy),
                                        left |-> RAdd(start.left, dx)]]]_vars

----------------------------------------------------------------------------
(* Preview specification: strokes, shapes and lassos on the empty board,   *)
(* with the tool changed from the keyboard and the session changed while   *)
(* the pointer is down.                                                    *)

PreviewTools == {"pen", "rectangle", "ai-lasso"}

NextPreview ==
    /\ \/ \E t \in PreviewTools : t # activeTool /\ SetActiveTool(t)
       \/ \E p \in GesturePointers :
             /\ activeTool # "select" /\ ~isDrawing /\ HistoryLen < MaxInk
             /\ onMouseDown(p[1], p[2])
       \/ \E p \in GesturePointers :
             /\ isDrawing /\ Len(ctx.path) < MaxPath /\ Len(lassoPath) < MaxLasso
             /\ onMouseMove(p[1], p[2])
       \/ isDrawing /\ onMouseUp
       \/ isDrawing /\ Len(chats) < MaxChats /\ ~HasChat(chats, now) /\ handleNewChat
       \/ \E i \in DOMAIN chats :
             isDrawing /\ chats[i].id # activeChatId /\ onSelectChat(chats[i].id)
       \/ now < StartTime + 1 /\ Tick
    /\ Render
    /\ Observe

SpecPreview == Init /\ [][NextPreview]_vars

\* C31: whenever no drawing or lasso gesture is in progress the preview
\* canvas is empty: the pointer-up of every gesture clears it, whatever tool
\* or session changes happened while the pointer was down.
C31_PreviewEmptyWhenIdle == ~isDrawing => previewCanvas = EmptyBitmap

\* box is the smallest axis-aligned box holding every point of path
IsBoundingBoxOf(box, path) ==
    /\ \A i \in DOMAIN path : InBox(path[i], box)
    /\ \E i \in DOMAIN path : path[i].x = box.minX
    /\ \E i \in DOMAIN path : path[i].x = box.maxX
    /\ \E i \in DOMAIN path : path[i].y = box.minY
    /\ \E i \in DOMAIN path : path[i].y = box.maxY

\* C32: after every lasso release the lasso bounds are the axis-aligned
\* bounding box of the points captured during the gesture, the pointer-down
\* point included, for a path of any length.
C32_LassoBoundsIsBoundingBox ==
    (lastOp.op = "mouseUp" /\ lastOp.did \in {"lasso", "shortLasso"}) =>
        /\ selectionBounds # <<>>
        /\ IsBoundingBoxOf(selectionBounds[1], lastOp.path)

----------------------------------------------------------------------------
(* Tool specification: every tool of the tool bar, picked between          *)
(* gestures, with strokes, shapes and lassos on the empty board.           *)

NextTool ==
    /\ \/ \E t \in Tools : t # activeTool /\ ~isDrawing /\ SetActiveTool(t)
       \/ \E p \in GesturePointers :
             /\ activeTool # "select" /\ ~isDrawing
             /\ activeTool = "ai-lasso" \/ HistoryLen < MaxInk
             /\ lastOp.op # "mouseDown"
             /\ onMouseDown(p[1], p[2])
       \/ \E p \in GesturePointers :
             /\ isDrawing /\ Len(ctx.path) < MaxPath /\ Len(lassoPath) < MaxLasso
             /\ onMouseMove(p[1], p[2])
       \/ lastOp.op \in {"mouseDown", "mouseMove"} /\ onMouseUp
    /\ Render
    /\ Observe

SpecTool == Init /\ [][NextTool]_vars

\* C33: the active tool changes only when a tool is picked in the tool bar,
\* and then to the tool picked: the pointer-up that completes a pen,
\* highlighter, eraser, shape or lasso gesture leaves it as it is.
C33_ToolChangesOnlyFromToolBar ==
    [][/\ activeTool' # activeTool =>
             (lastOp'.op = "setActiveTool" /\ activeTool' = lastOp'.tool)
       /\ lastOp'.op = "mouseUp" => activeTool' = activeTool]_vars

\* a lasso of three points or more was released, after a shape or a stroke
\* had been committed, and the lasso is still the active tool
C33_Witness ==
    /\ lastOp.op = "mouseUp" /\ lastOp.did = "lasso"
    /\ activeTool = "ai-lasso"
    /\ HistoryLen >= 1

----------------------------------------------------------------------------
(* Visibility specification: a saved session whose cards have no visible   *)
(* field, generated visuals, a key concept added by an AI action, and the  *)
(* eye buttons of the cards and of the side panel.                         *)

\* the cards listed as key concepts in the notes tab
KeyConceptIds ==
    IF HasActiveChat
    THEN {activeChat.visualCards[i].id :
             i \in {j \in DOMAIN activeChat.visualCards :
                       /\ activeChat.visualCards[j].type = "text"
                       /\ activeChat.visualCards[j].backgroundColor = <<"#f0fdf4">>}}
    ELSE {}

NextVisible ==
    /\ \/ \E id \in ActiveCardIds : \E p \in CardPointers :
             /\ activeTool = "select" /\ ~panZoom.isPanning /\ selectedCardIds = <<>>
             /\ listeners = <<>>
             /\ cardMouseDown(id, FALSE, p[1], p[2])
       \/ panZoom.isPanning /\ onMouseUp
       \/ lastOp.op = "mouseUp" /\ cardMouseUp
       \/ /\ pending = {} /\ HasActiveChat /\ Len(activeChat.visualCards) < MaxOwned
          /\ handleAiMenuAction("explain")
       \/ \E r \in pending : aiActionSettled(r, TRUE, "answer")
       \/ pending = {} /\ VisualCount = 0 /\ handleGenerateVisuals
       \/ \E r \in pending : keywordsExtracted(r, <<"k1">>)
       \/ \E r \in pending : \E url \in Urls : visualSettled(r, TRUE, url)
       \/ \E id \in ActiveCardIds : toggleVisibility(id)
       \/ \E v \in ActiveVisuals : toggleVisualCardVisibility(v.id)
       \/ \E id \in KeyConceptIds : toggleVisualCardVisibility(id)
    /\ Click
    /\ Render
    /\ Observe

SpecVisible == InitStored /\ [][NextVisible]_vars

\* C35: a card without a visible field counts as visible; a click on the
\* card's own eye button or on the side panel's eye button for the card
\* inverts its visibility - a card without the field becomes hidden - and
\* leaves the card in the session and every other card as it was; a second
\* click on the same card brings back the visibility it had.
C35_ToggleHidesAndRestores ==
    [][(lastOp'.op = "toggleVisibility" /\ lastOp'.target # <<>>) =>
          LET id == lastOp'.target[1]
              before == activeChat.visualCards
              after == activeChat'.visualCards
          IN  /\ CardIdSeq(after) = CardIdSeq(before)
              /\ \A i \in DOMAIN before :
                    IF before[i].id = id
                    THEN /\ IsVisible(after[i]) = ~IsVisible(before[i])
                         /\ [after[i] EXCEPT !.visible = <<>>] = [before[i] EXCEPT !.visible = <<>>]
                    ELSE after[i] = before[i]
              /\ (lastOp.op = "toggleVisibility" /\ lastOp.target = lastOp'.target) =>
                    IsVisible(CardOf(after, id)) = lastOp.wasVisible]_vars

----------------------------------------------------------------------------
(* Progress specification: a saved session with two AI cards; regeneration *)
(* of cards, generation of visuals, deletions of loading cards and session *)
(* changes while requests are in flight, where every request that was      *)
(* issued settles.                                                         *)

\* the request with the number rid settles: resolved or rejected
Settle(rid) ==
    \E r \in pending :
        /\ r.rid = rid
        /\ \/ \E ok \in BOOLEAN : \E url \in Urls : regenerateSettled(r, ok, url)
           \/ keywordsExtracted(r, <<"k1">>)
           \/ keywordsFailed(r)
           \/ \E ok \in BOOLEAN : \E url \in Urls : visualSettled(r, ok, url)

RequestIds == 1..(MaxInFlight + 1)

NextLive ==
    /\ \/ \E id \in ActiveAiCardIds :
             Cardinality(pending) < MaxInFlight /\ handleRegenerateVisual(id)
       \/ pending = {} /\ VisualCount = 0 /\ handleGenerateVisuals
       \/ \E rid \in RequestIds : Settle(rid)
       \/ \E id \in ActiveCardIds :
             StatusOf(chats, activeChatId, id) = "loading" /\ onDelete(id)
       \/ pending # {} /\ Len(chats) < MaxChats /\ ~HasChat(chats, now) /\ handleNewChat
       \/ \E i \in DOMAIN chats :
             pending # {} /\ chats[i].id # activeChatId /\ onSelectChat(chats[i].id)
    /\ Render
    /\ Observe

\* a promise that was issued settles: its callback runs once the service
\* has answered or failed
RequestsSettle == \A rid \in RequestIds : WF_vars(Settle(rid) /\ Render /\ Observe)

SpecLive == InitStored /\ [][NextLive]_vars /\ RequestsSettle

\* a card or a generated visual with the id in the session chatId is loading
ItemLoading(chatId, id) ==
    \E i \in DOMAIN chats :
        /\ chats[i].id = chatId
        /\ \/ \E j \in DOMAIN chats[i].visualCards :
                 chats[i].visualCards[j].id = id /\ chats[i].visualCards[j].status = "loading"
           \/ \E j \in DOMAIN chats[i].generatedVisuals :
                 /\ chats[i].generatedVisuals[j].id = id
                 /\ chats[i].generatedVisuals[j].status = "loading"

\* the clock stands at the time of the reload
LiveTimes == {StartTime, ReloadTime}
LiveItemIds == CardIds(StoredCards) \cup {<<"visual", t, "k1">> : t \in LiveTimes}

\* C40: a card or a generated visual that is loading is later not loading
\* any more - loaded, failed or deleted - when every request that was issued
\* settles, whatever regenerations, deletions and session changes come in
\* between.
C40_LoadingEventuallyEnds ==
    \A chatId \in LiveTimes : \A id \in LiveItemIds :
        ItemLoading(chatId, id) ~> ~ItemLoading(chatId, id)

\* a generated visual of a session the user has left got its image
C40_Witness ==
    /\ lastOp.op = "visualSettled" /\ lastOp.ok
    /\ \E i \in DOMAIN chats :
          /\ chats[i].id # activeChatId
          /\ \E j \in DOMAIN chats[i].generatedVisuals :
                chats[i].generatedVisuals[j].status = "loaded"

====
